---------------------------- MODULE Spec2Model ----------------------------
(***************************************************************************)
(* Export pricing and CSV export of the velodata dashboard.                *)
(*                                                                         *)
(* Server side : exportToEBayCSV / exportToShopifyCSV (app/actions/export) *)
(* Client side : the live price preview of ExportModal and MarkupDialog.   *)
(*                                                                         *)
(* JavaScript numbers are modelled as exact rationals <<n, d>> (d > 0, in  *)
(* lowest terms) plus the non-finite values "NaN", "Infinity" and          *)
(* "-Infinity"; toFixed rounds the exact value half away from zero.        *)
(***************************************************************************)
EXTENDS Integers, Sequences, FiniteSets, TLC

\* Property names of the records of this module, in the order every record
\* lists them.
PropertyNames ==
    [kind |-> "kind", value |-> "value",
     success |-> "success", csv |-> "csv", filename |-> "filename", error |-> "error",
     out |-> "out", raised |-> "raised", finds |-> "finds", prices |-> "prices",
     fn |-> "fn", listingIds |-> "listingIds", netMarginPercent |-> "netMarginPercent",
     db |-> "db", now |-> "now",
     present |-> "present", items |-> "items",
     _id |-> "_id", niche_type |-> "niche_type", title |-> "title",
     price_jpy |-> "price_jpy", image_urls |-> "image_urls", missing |-> "missing",
     averagePrice |-> "averagePrice", shippingCost |-> "shippingCost", margin |-> "margin",
     salePrice |-> "salePrice", written |-> "written",
     amounts |-> "amounts", pricing |-> "pricing",
     finalValueFee |-> "finalValueFee", paymentFee |-> "paymentFee",
     internationalFee |-> "internationalFee", totalFees |-> "totalFees",
     netProfit |-> "netProfit", actualMargin |-> "actualMargin",
     grossMarginPercent |-> "grossMarginPercent",
     attributes |-> "attributes", game |-> "game", tcg_game |-> "tcg_game",
     subcategory |-> "subcategory", condition_rank |-> "condition_rank",
     brand |-> "brand",
     row |-> "row", line |-> "line",
     STANDARD |-> "STANDARD",
     TCG |-> "TCG", WATCH |-> "WATCH", CAMERA_GEAR |-> "CAMERA_GEAR",
     LUXURY_ITEM |-> "LUXURY_ITEM", VIDEOGAME |-> "VIDEOGAME",
     STATIONARY |-> "STATIONARY", COLLECTION_FIGURES |-> "COLLECTION_FIGURES",
     RESTRICTED |-> "RESTRICTED",
     N |-> "N", S |-> "S", A |-> "A", B |-> "B", C |-> "C", D |-> "D", JUNK |-> "JUNK",
     POKEMON |-> "POKEMON", YUGIOH |-> "YUGIOH", ONE_PIECE |-> "ONE_PIECE",
     MAGIC |-> "MAGIC", UNION_ARENA |-> "UNION_ARENA",
     WEISS_SCHWARZ |-> "WEISS_SCHWARZ", DRAGON_BALL |-> "DRAGON_BALL",
     DIGIMON |-> "DIGIMON", VANGUARD |-> "VANGUARD", DUEL_MASTERS |-> "DUEL_MASTERS",
     HOLOLIVE |-> "HOLOLIVE",
     BAG |-> "BAG", WALLET |-> "WALLET", ACCESSORY |-> "ACCESSORY",
     STANDING_CONSOLE |-> "STANDING_CONSOLE", PORTABLE_CONSOLE |-> "PORTABLE_CONSOLE",
     HYBRID_CONSOLE |-> "HYBRID_CONSOLE",
     FOUNTAIN_PEN |-> "FOUNTAIN_PEN", BALLPOINT_PEN |-> "BALLPOINT_PEN",
     MECHANICAL_PENCIL |-> "MECHANICAL_PENCIL", PEN |-> "PEN",
     WRITING_UTENSIL |-> "WRITING_UTENSIL", PENCIL |-> "PENCIL", MARKER |-> "MARKER",
     INK |-> "INK", NOTEBOOK |-> "NOTEBOOK",
     constructor |-> "constructor", hasOwnProperty |-> "hasOwnProperty",
     isPrototypeOf |-> "isPrototypeOf", propertyIsEnumerable |-> "propertyIsEnumerable",
     toLocaleString |-> "toLocaleString", toString |-> "toString",
     valueOf |-> "valueOf", returned |-> "returned",
     model_number |-> "model_number", card_number |-> "card_number",
     set_code |-> "set_code", set |-> "set", rarity |-> "rarity",
     language |-> "language", character_name |-> "character_name",
     component |-> "component", isOpen |-> "isOpen", step |-> "step",
     selectedPlatform |-> "selectedPlatform", desiredMargin |-> "desiredMargin",
     event |-> "event", onConfirm |-> "onConfirm", onCancel |-> "onCancel",
     alert |-> "alert", platform |-> "platform"]

VARIABLES
    call,       \* the last export call: its arguments, and what the database
                \* and the clock did while it ran
    result,     \* the value that call returned to its caller
    findCalls,  \* collection.find() calls made by that call
    priceCalls, \* sale prices computed by that call
    raised,     \* message of the exception raised inside that call, or NoError
    escaped,    \* TRUE iff an exception left that call
    pin,        \* inputs of the last pricing computation
    pout,       \* what that pricing computation returned
    cin,        \* the row object handed to objectToCSVLine
    cout,       \* the line objectToCSVLine returned for it
    lin,        \* the listing handed to the eBay row mapping and its helpers
    rout,       \* what the last of them returned for it
    modal,      \* the export dialog on screen: its isOpen prop and its state
    event       \* the last event of the dialog and what its handler did: the
                \* arguments it called onConfirm with, whether it called
                \* onCancel, the message it alerted

vars == <<call, result, findCalls, priceCalls, raised, escaped, pin, pout,
          cin, cout, lin, rout, modal, event>>

exportVars == <<call, result, findCalls, priceCalls, raised, escaped>>
pricingVars == <<pin, pout>>

(***************************************************************************)
(* Bounds of the model                                                     *)
(***************************************************************************)
MaxMarginStep == 5      \* margins -125, 0, 125, ... , 125 * (MaxMarginStep - 1)
MaxPriceStep == 4       \* prices 0, 2500, ... , 2500 * MaxPriceStep yen
MaxExportMarginStep == 2 \* export margins 0, 250, ... , 250 * MaxExportMarginStep
MaxFieldLen == 3        \* longest field value handed to objectToCSVLine on its own
MaxOverLength == 2      \* listing titles of 80, 81, ... , 80 + MaxOverLength characters
MaxImages == 11         \* images of the stored listing that has the most

NoError == "none"
NoCall == [fn |-> "none"]
NoResult == [fn |-> "none"]
NoReturn == [fn |-> "none"]
NoModal == [component |-> "none"]
NoEvent == [event |-> "none", onConfirm |-> <<>>, onCancel |-> FALSE, alert |-> ""]
NoListing == [niche_type |-> "none"]

(***************************************************************************)
(* JavaScript numbers.  A number is <<"fin", n, d>> (the rational n / d,   *)
(* d > 0, lowest terms), <<"nan", 0, 1>>, <<"inf", 1, 1>> or               *)
(* <<"inf", -1, 1>>.  Finite arithmetic is exact; signed zero is ignored.  *)
(***************************************************************************)
Abs(n) == IF n < 0 THEN -n ELSE n

Sign(n) == IF n < 0 THEN -1 ELSE IF n > 0 THEN 1 ELSE 0

RECURSIVE GCD(_, _)
GCD(a, b) == IF b = 0 THEN a ELSE GCD(b, a % b)

LCM(a, b) == (a \div GCD(a, b)) * b

Rat(n, d) == LET g == GCD(Abs(n), d) IN <<"fin", n \div g, d \div g>>

Num(n) == <<"fin", n, 1>>

NaN == <<"nan", 0, 1>>

Infinity(s) == <<"inf", s, 1>>

IsFinite(x) == x[1] = "fin"

IsNaN(x) == x[1] = "nan"

JNeg(x) == <<x[1], -x[2], x[3]>>

\* x + y
JAdd(x, y) ==
    IF IsNaN(x) \/ IsNaN(y) THEN NaN
    ELSE IF ~IsFinite(x) /\ ~IsFinite(y) THEN (IF x[2] = y[2] THEN x ELSE NaN)
    ELSE IF ~IsFinite(x) THEN x
    ELSE IF ~IsFinite(y) THEN y
    ELSE LET l == LCM(x[3], y[3])
         IN Rat(x[2] * (l \div x[3]) + y[2] * (l \div y[3]), l)

\* x - y
JSub(x, y) == JAdd(x, JNeg(y))

\* x * y
JMul(x, y) ==
    IF IsNaN(x) \/ IsNaN(y) THEN NaN
    ELSE IF ~IsFinite(x) \/ ~IsFinite(y)
         THEN (IF x[2] = 0 \/ y[2] = 0 THEN NaN ELSE Infinity(Sign(x[2]) * Sign(y[2])))
    ELSE LET g1 == GCD(Abs(x[2]), y[3])
             g2 == GCD(Abs(y[2]), x[3])
         IN <<"fin", (x[2] \div g1) * (y[2] \div g2), (x[3] \div g2) * (y[3] \div g1)>>

\* x / y : a zero divisor gives NaN or an infinity, never an exception
JDiv(x, y) ==
    IF IsNaN(x) \/ IsNaN(y) THEN NaN
    ELSE IF ~IsFinite(x) /\ ~IsFinite(y) THEN NaN
    ELSE IF ~IsFinite(x) THEN Infinity(IF y[2] < 0 THEN -x[2] ELSE x[2])
    ELSE IF ~IsFinite(y) THEN Num(0)
    ELSE IF y[2] = 0 THEN (IF x[2] = 0 THEN NaN ELSE Infinity(Sign(x[2])))
    ELSE JMul(x, <<"fin", Sign(y[2]) * y[3], Abs(y[2])>>)

\* x < y and x <= y : false as soon as one side is NaN
JLess(x, y) ==
    /\ ~IsNaN(x) /\ ~IsNaN(y)
    /\ LET d == JSub(x, y) IN ~IsNaN(d) /\ d[2] < 0

JLeq(x, y) ==
    /\ ~IsNaN(x) /\ ~IsNaN(y)
    /\ (x = y \/ JLess(x, y))

JAbs(x) == <<x[1], Abs(x[2]), x[3]>>

\* an argument the caller left out
UndefinedNumber == <<"undefined", 0, 1>>

\* a parameter with a default value: `param = dflt` in the signature
DefaultArg(v, dflt) == IF v[1] = "undefined" THEN dflt ELSE v

\* ToNumber of a property that may be absent: undefined converts to NaN
ToNumber(present, n) == IF present THEN Num(n) ELSE NaN

Pow10(f) == IF f = 0 THEN 1 ELSE IF f = 1 THEN 10 ELSE 100

Digits2(n) == IF n < 10 THEN "0" \o ToString(n) ELSE ToString(n)

\* the integer nearest to the non-negative rational a, a tie going up
RoundHalfUp(a) ==
    IF (a[2] % a[3]) >= a[3] - (a[2] % a[3]) THEN (a[2] \div a[3]) + 1 ELSE a[2] \div a[3]

\* the decimal digits of n / 10^f with f digits after the point
FixedDigits(n, f) ==
    IF f = 0 THEN ToString(n)
    ELSE IF f = 1 THEN ToString(n \div 10) \o "." \o ToString(n % 10)
    ELSE ToString(n \div 100) \o "." \o Digits2(n % 100)

\* Number.prototype.toFixed(f), f in 0..2: the exact value rounded to f decimals,
\* a tie going away from zero
toFixed(x, f) ==
    IF IsNaN(x) THEN "NaN"
    ELSE IF ~IsFinite(x) THEN (IF x[2] < 0 THEN "-Infinity" ELSE "Infinity")
    ELSE (IF x[2] < 0 THEN "-" ELSE "")
             \o FixedDigits(RoundHalfUp(JMul(JAbs(x), Num(Pow10(f)))), f)

(***************************************************************************)
(* Pricing engine of the export (app/actions/export)                       *)
(***************************************************************************)
EBAY_FINAL_VALUE_FEE == Rat(1325, 10000)
EBAY_PAYMENT_PROCESSING_PERCENT == Rat(235, 10000)
EBAY_PAYMENT_PROCESSING_FIXED == Rat(30, 100)
EBAY_INTERNATIONAL_FEE == Rat(165, 10000)
JPY_TO_USD_RATE == Rat(67, 10000)

SHIPPING_COSTS_BY_NICHE ==
    [TCG |-> Num(30), WATCH |-> Num(30), CAMERA_GEAR |-> Num(30),
     LUXURY_ITEM |-> Num(30), VIDEOGAME |-> Num(30), STATIONARY |-> Num(30),
     COLLECTION_FIGURES |-> Rat(469, 10)]

\* the lookup without its fallback and without the niche's own constant
getShippingCost_notAdded(nicheType) == Num(0)

\* one shipping constant for every niche
getShippingCost_flat(nicheType) == Num(30)

getShippingCost(nicheType) ==
    IF nicheType \in DOMAIN SHIPPING_COSTS_BY_NICHE
    THEN SHIPPING_COSTS_BY_NICHE[nicheType]
    ELSE Num(30)

\* the sale price with the fixed payment fee left out of the numerator
calculateSalePriceWithMargin_noFixedFee(costUSD, desiredMarginPercent, shippingCost) ==
    LET totalFeePercent ==
            JAdd(JAdd(EBAY_FINAL_VALUE_FEE, EBAY_PAYMENT_PROCESSING_PERCENT),
                 EBAY_INTERNATIONAL_FEE)
        desiredProfit == JMul(costUSD, JDiv(desiredMarginPercent, Num(100)))
    IN JDiv(JAdd(JAdd(costUSD, shippingCost), desiredProfit),
            JSub(Num(1), totalFeePercent))

calculateSalePriceWithMargin(costUSD, desiredMarginPercent, shippingCost) ==
    LET totalFeePercent ==
            JAdd(JAdd(EBAY_FINAL_VALUE_FEE, EBAY_PAYMENT_PROCESSING_PERCENT),
                 EBAY_INTERNATIONAL_FEE)
        desiredProfit == JMul(costUSD, JDiv(desiredMarginPercent, Num(100)))
        salePrice ==
            JDiv(JAdd(JAdd(JAdd(costUSD, shippingCost), desiredProfit),
                      EBAY_PAYMENT_PROCESSING_FIXED),
                 JSub(Num(1), totalFeePercent))
    IN salePrice

SHOPIFY_PAYMENT_FEE_PERCENT == Rat(29, 1000)
SHOPIFY_PAYMENT_FEE_FIXED == Rat(30, 100)

\* the Shopify price with the desired profit subtracted instead of added
calculateShopifyPrice_profitSubtracted(costJPY, desiredMarginPercent) ==
    LET costUSD == JMul(costJPY, JPY_TO_USD_RATE)
        desiredProfit == JMul(costUSD, JDiv(desiredMarginPercent, Num(100)))
    IN JDiv(JAdd(JSub(costUSD, desiredProfit), SHOPIFY_PAYMENT_FEE_FIXED),
            JSub(Num(1), SHOPIFY_PAYMENT_FEE_PERCENT))

\* the Shopify price with the eBay shipping constant added to the cost base
calculateShopifyPrice_withShipping(costJPY, desiredMarginPercent) ==
    LET costUSD == JMul(costJPY, JPY_TO_USD_RATE)
        desiredProfit == JMul(costUSD, JDiv(desiredMarginPercent, Num(100)))
    IN JDiv(JAdd(JAdd(JAdd(costUSD, Num(30)), desiredProfit), SHOPIFY_PAYMENT_FEE_FIXED),
            JSub(Num(1), SHOPIFY_PAYMENT_FEE_PERCENT))

calculateShopifyPrice(costJPY, desiredMarginPercent) ==
    LET costUSD == JMul(costJPY, JPY_TO_USD_RATE)
        desiredProfit == JMul(costUSD, JDiv(desiredMarginPercent, Num(100)))
        salePrice ==
            JDiv(JAdd(JAdd(costUSD, desiredProfit), SHOPIFY_PAYMENT_FEE_FIXED),
                 JSub(Num(1), SHOPIFY_PAYMENT_FEE_PERCENT))
    IN salePrice

(***************************************************************************)
(* Live price preview of ExportModal                                       *)
(***************************************************************************)
ExportModal_EBAY_FINAL_VALUE_FEE == Rat(1325, 10000)
ExportModal_EBAY_PAYMENT_PROCESSING_PERCENT == Rat(235, 10000)
ExportModal_EBAY_PAYMENT_PROCESSING_FIXED == Rat(30, 100)
ExportModal_EBAY_INTERNATIONAL_FEE == Rat(165, 10000)
ExportModal_SHOPIFY_PAYMENT_FEE_PERCENT == Rat(29, 1000)
ExportModal_SHOPIFY_PAYMENT_FEE_FIXED == Rat(30, 100)
\* a copy of the exchange rate that was not updated with the export's
ExportModal_JPY_TO_USD_RATE_stale == Rat(65, 10000)
ExportModal_JPY_TO_USD_RATE == Rat(67, 10000)

\* avgCostUSD of the render: averagePrice is the mean price in yen
ExportModal_avgCostUSD(averagePrice) == JMul(averagePrice, ExportModal_JPY_TO_USD_RATE)

\* the numbers calculateEBayPricing computes before it formats them
ExportModal_eBayAmounts(averagePrice, averageShippingCost, marginPercent) ==
    LET avgCostUSD == ExportModal_avgCostUSD(averagePrice)
        totalFeePercent ==
            JAdd(JAdd(ExportModal_EBAY_FINAL_VALUE_FEE,
                      ExportModal_EBAY_PAYMENT_PROCESSING_PERCENT),
                 ExportModal_EBAY_INTERNATIONAL_FEE)
        desiredProfit == JMul(avgCostUSD, JDiv(marginPercent, Num(100)))
        salePrice ==
            JDiv(JAdd(JAdd(JAdd(avgCostUSD, averageShippingCost), desiredProfit),
                      ExportModal_EBAY_PAYMENT_PROCESSING_FIXED),
                 JSub(Num(1), totalFeePercent))
        finalValueFee == JMul(salePrice, ExportModal_EBAY_FINAL_VALUE_FEE)
        paymentFee ==
            JAdd(JMul(salePrice, ExportModal_EBAY_PAYMENT_PROCESSING_PERCENT),
                 ExportModal_EBAY_PAYMENT_PROCESSING_FIXED)
        internationalFee == JMul(salePrice, ExportModal_EBAY_INTERNATIONAL_FEE)
        totalFees == JAdd(JAdd(finalValueFee, paymentFee), internationalFee)
        netProfit == JSub(JSub(JSub(salePrice, avgCostUSD), averageShippingCost), totalFees)
        actualMargin == JMul(JDiv(netProfit, avgCostUSD), Num(100))
    IN [salePrice |-> salePrice, finalValueFee |-> finalValueFee,
        paymentFee |-> paymentFee, internationalFee |-> internationalFee,
        totalFees |-> totalFees, netProfit |-> netProfit,
        actualMargin |-> actualMargin,
        grossMarginPercent |->
            JMul(JDiv(JSub(salePrice, avgCostUSD), salePrice), Num(100))]

\* what a pricing function of the dialogs returns: every amount formatted
FormatPricing(a) ==
    [salePrice |-> toFixed(a.salePrice, 2),
     totalFees |-> toFixed(a.totalFees, 2),
     netProfit |-> toFixed(a.netProfit, 2),
     actualMargin |-> toFixed(a.actualMargin, 1),
     grossMarginPercent |-> toFixed(a.grossMarginPercent, 1)]

ExportModal_calculateEBayPricing(averagePrice, averageShippingCost, marginPercent) ==
    FormatPricing(ExportModal_eBayAmounts(averagePrice, averageShippingCost, marginPercent))

\* the numbers calculateShopifyPricing computes before it formats them
ExportModal_shopifyAmounts(averagePrice, marginPercent) ==
    LET avgCostUSD == ExportModal_avgCostUSD(averagePrice)
        desiredProfit == JMul(avgCostUSD, JDiv(marginPercent, Num(100)))
        salePrice ==
            JDiv(JAdd(JAdd(avgCostUSD, desiredProfit), ExportModal_SHOPIFY_PAYMENT_FEE_FIXED),
                 JSub(Num(1), ExportModal_SHOPIFY_PAYMENT_FEE_PERCENT))
        paymentFee ==
            JAdd(JMul(salePrice, ExportModal_SHOPIFY_PAYMENT_FEE_PERCENT),
                 ExportModal_SHOPIFY_PAYMENT_FEE_FIXED)
        netProfit == JSub(JSub(salePrice, avgCostUSD), paymentFee)
        actualMargin == JMul(JDiv(netProfit, avgCostUSD), Num(100))
    IN [salePrice |-> salePrice, paymentFee |-> paymentFee, totalFees |-> paymentFee,
        netProfit |-> netProfit, actualMargin |-> actualMargin,
        grossMarginPercent |->
            JMul(JDiv(JSub(salePrice, avgCostUSD), salePrice), Num(100))]

ExportModal_calculateShopifyPricing(averagePrice, marginPercent) ==
    FormatPricing(ExportModal_shopifyAmounts(averagePrice, marginPercent))

(***************************************************************************)
(* Live price preview of MarkupDialog (eBay only)                          *)
(***************************************************************************)
MarkupDialog_EBAY_FINAL_VALUE_FEE == Rat(1325, 10000)
MarkupDialog_EBAY_PAYMENT_PROCESSING_PERCENT == Rat(235, 10000)
MarkupDialog_EBAY_PAYMENT_PROCESSING_FIXED == Rat(30, 100)
MarkupDialog_EBAY_INTERNATIONAL_FEE == Rat(165, 10000)

MarkupDialog_avgCostUSD(averagePrice) == JMul(averagePrice, Rat(67, 10000))

MarkupDialog_amounts(averagePrice, averageShippingCost, marginPercent) ==
    LET avgCostUSD == MarkupDialog_avgCostUSD(averagePrice)
        totalFeePercent ==
            JAdd(JAdd(MarkupDialog_EBAY_FINAL_VALUE_FEE,
                      MarkupDialog_EBAY_PAYMENT_PROCESSING_PERCENT),
                 MarkupDialog_EBAY_INTERNATIONAL_FEE)
        desiredProfit == JMul(avgCostUSD, JDiv(marginPercent, Num(100)))
        salePrice ==
            JDiv(JAdd(JAdd(JAdd(avgCostUSD, averageShippingCost), desiredProfit),
                      MarkupDialog_EBAY_PAYMENT_PROCESSING_FIXED),
                 JSub(Num(1), totalFeePercent))
        finalValueFee == JMul(salePrice, MarkupDialog_EBAY_FINAL_VALUE_FEE)
        paymentFee ==
            JAdd(JMul(salePrice, MarkupDialog_EBAY_PAYMENT_PROCESSING_PERCENT),
                 MarkupDialog_EBAY_PAYMENT_PROCESSING_FIXED)
        internationalFee == JMul(salePrice, MarkupDialog_EBAY_INTERNATIONAL_FEE)
        totalFees == JAdd(JAdd(finalValueFee, paymentFee), internationalFee)
        netProfit == JSub(JSub(JSub(salePrice, avgCostUSD), averageShippingCost), totalFees)
        actualMargin == JMul(JDiv(netProfit, avgCostUSD), Num(100))
    IN [salePrice |-> salePrice, finalValueFee |-> finalValueFee,
        paymentFee |-> paymentFee, internationalFee |-> internationalFee,
        totalFees |-> totalFees, netProfit |-> netProfit,
        actualMargin |-> actualMargin,
        grossMarginPercent |->
            JMul(JDiv(JSub(salePrice, avgCostUSD), salePrice), Num(100))]

MarkupDialog_calculatePricing(averagePrice, averageShippingCost, marginPercent) ==
    FormatPricing(MarkupDialog_amounts(averagePrice, averageShippingCost, marginPercent))

(***************************************************************************)
(* Inputs of the pricing computations                                      *)
(***************************************************************************)
\* margin percentages a caller can send, inside and outside [0, 500]
MarginInputs ==
    {Num(-1000), Num(25), Rat(25, 2)}
        \cup {Num(125 * (k - 1)) : k \in 0..MaxMarginStep}

\* prices in yen (price_jpy of a listing, or the rounded mean of a selection)
PriceInputs == {100} \cup {2500 * k : k \in 0..MaxPriceStep}

\* shipping costs in dollars: none, and the two values of SHIPPING_COSTS_BY_NICHE
ShippingInputs == {Num(0), Num(30), Rat(469, 10)}

NoPricing == [fn |-> "none"]

InitPricing ==
    /\ pin \in [averagePrice : PriceInputs, shippingCost : ShippingInputs,
                margin : MarginInputs]
    /\ pout = NoPricing
    /\ call = NoCall
    /\ result = NoResult
    /\ findCalls = 0
    /\ priceCalls = 0
    /\ raised = NoError
    /\ escaped = FALSE
    /\ cin = <<>>
    /\ cout = NoReturn
    /\ modal = NoModal
    /\ event = NoEvent
    /\ lin = NoListing
    /\ rout = NoReturn

\* listingToEBayRow's pricing step: convert, price, format
EBayExportPrice ==
    /\ pout' = [fn |-> "calculateSalePriceWithMargin",
                salePrice |-> calculateSalePriceWithMargin(
                    JMul(Num(pin.averagePrice), JPY_TO_USD_RATE), pin.margin,
                    pin.shippingCost),
                written |-> toFixed(calculateSalePriceWithMargin(
                    JMul(Num(pin.averagePrice), JPY_TO_USD_RATE), pin.margin,
                    pin.shippingCost), 2)]
    /\ UNCHANGED <<pin, exportVars, cin, cout, lin, rout, modal, event>>

\* listingToShopifyRow's pricing step
ShopifyExportPrice ==
    /\ pout' = [fn |-> "calculateShopifyPrice",
                salePrice |-> calculateShopifyPrice(Num(pin.averagePrice), pin.margin),
                written |-> toFixed(calculateShopifyPrice(Num(pin.averagePrice),
                                                          pin.margin), 2)]
    /\ UNCHANGED <<pin, exportVars, cin, cout, lin, rout, modal, event>>

\* a render of ExportModal at step 2 with eBay selected
ExportModalEBayPreview ==
    /\ pout' = [fn |-> "ExportModal.calculateEBayPricing",
                amounts |-> ExportModal_eBayAmounts(Num(pin.averagePrice),
                                                    pin.shippingCost, pin.margin),
                pricing |-> ExportModal_calculateEBayPricing(Num(pin.averagePrice),
                                                    pin.shippingCost, pin.margin)]
    /\ UNCHANGED <<pin, exportVars, cin, cout, lin, rout, modal, event>>

\* a render of ExportModal at step 2 with Shopify selected
ExportModalShopifyPreview ==
    /\ pout' = [fn |-> "ExportModal.calculateShopifyPricing",
                amounts |-> ExportModal_shopifyAmounts(Num(pin.averagePrice), pin.margin),
                pricing |-> ExportModal_calculateShopifyPricing(Num(pin.averagePrice),
                                                                pin.margin)]
    /\ UNCHANGED <<pin, exportVars, cin, cout, lin, rout, modal, event>>

\* a render of MarkupDialog
MarkupDialogPreview ==
    /\ pout' = [fn |-> "MarkupDialog.calculatePricing",
                amounts |-> MarkupDialog_amounts(Num(pin.averagePrice),
                                                 pin.shippingCost, pin.margin),
                pricing |-> MarkupDialog_calculatePricing(Num(pin.averagePrice),
                                                 pin.shippingCost, pin.margin)]
    /\ UNCHANGED <<pin, exportVars, cin, cout, lin, rout, modal, event>>

NextPricing ==
    \/ EBayExportPrice
    \/ ShopifyExportPrice
    \/ ExportModalEBayPreview
    \/ ExportModalShopifyPreview
    \/ MarkupDialogPreview

SpecPricing == InitPricing /\ [][NextPricing]_vars


(***************************************************************************)
(* JavaScript strings and values.  A string is a TLA+ string.  A value is  *)
(* <<type, text>>: a string, undefined, null, or an object or function     *)
(* inherited from Object.prototype (text is then what String() gives).     *)
(***************************************************************************)
CharAt(s, i) == SubSeq(s, i, i)

\* s.includes(pattern)
includes(s, pattern) ==
    \E i \in 1..(Len(s) - Len(pattern) + 1) : SubSeq(s, i, i + Len(pattern) - 1) = pattern

\* a cut one character late
substring_oneMore(s, end) == IF Len(s) <= end + 1 THEN s ELSE SubSeq(s, 1, end + 1)

\* s.substring(0, end)
substring(s, end) == IF Len(s) <= end THEN s ELSE SubSeq(s, 1, end)

\* a replace that leaves the quotes as they are
DoubleQuotes_single(s) == s

\* s.replace(/"/g, '""')
RECURSIVE DoubleQuotes(_)
DoubleQuotes(s) ==
    IF s = "" THEN ""
    ELSE IF Len(s) = 1 THEN (IF s = "\"" THEN "\"\"" ELSE s)
    ELSE DoubleQuotes(SubSeq(s, 1, Len(s) \div 2))
             \o DoubleQuotes(SubSeq(s, Len(s) \div 2 + 1, Len(s)))

\* parts.join(separator)
RECURSIVE Join(_, _)
Join(parts, separator) ==
    IF parts = <<>> THEN ""
    ELSE IF Len(parts) = 1 THEN parts[1]
    ELSE Join(SubSeq(parts, 1, Len(parts) \div 2), separator) \o separator
             \o Join(SubSeq(parts, Len(parts) \div 2 + 1, Len(parts)), separator)

Str(s) == <<"string", s>>

Undefined == <<"undefined", "">>

Null == <<"null", "">>

\* a built-in method, as String() prints it
NativeFunction(name) == <<"function", "function " \o name \o "() { [native code] }">>

\* the properties every object literal inherits
ObjectPrototype ==
    [constructor |-> NativeFunction("Object"),
     hasOwnProperty |-> NativeFunction("hasOwnProperty"),
     isPrototypeOf |-> NativeFunction("isPrototypeOf"),
     propertyIsEnumerable |-> NativeFunction("propertyIsEnumerable"),
     toLocaleString |-> NativeFunction("toLocaleString"),
     toString |-> NativeFunction("toString"),
     valueOf |-> NativeFunction("valueOf")]

\* obj[key] where obj is an object literal holding values
Get(obj, key) ==
    IF key \in DOMAIN obj THEN obj[key]
    ELSE IF key \in DOMAIN ObjectPrototype THEN ObjectPrototype[key]
    ELSE Undefined

\* table[key] where table is an object literal holding strings
Lookup(table, key) ==
    IF key \in DOMAIN table THEN Str(table[key])
    ELSE IF key \in DOMAIN ObjectPrototype THEN ObjectPrototype[key]
    ELSE Undefined

\* the value is truthy
Truthy(v) == v[1] \in {"function", "object"} \/ (v[1] = "string" /\ v[2] # "")

\* a || b
Or(a, b) == IF Truthy(a) THEN a ELSE b

\* String(v)
String(v) == IF v[1] \in {"null", "undefined"} THEN v[1] ELSE v[2]

(***************************************************************************)
(* The market_listings collection and the inputs of an export call         *)
(*                                                                         *)
(* A listing document is a record; `missing` names the properties the      *)
(* stored document lacks (the collection is schemaless).                   *)
(***************************************************************************)
\* the attributes of a listing that carries none
NoAttributes ==
    [game |-> Undefined, tcg_game |-> Undefined, subcategory |-> Undefined,
     condition_rank |-> Undefined, brand |-> Undefined, model_number |-> Undefined,
     card_number |-> Undefined, set_code |-> Undefined, set |-> Undefined,
     rarity |-> Undefined, language |-> Undefined, character_name |-> Undefined]

Collection == <<
    [_id |-> "665f000000000000001a2b3c", niche_type |-> "TCG",
     title |-> "Pikachu VMAX", price_jpy |-> 10000,
     image_urls |-> <<"https://img/1a.jpg">>, missing |-> {},
     attributes |-> [NoAttributes EXCEPT !.game = Str("POKEMON"),
                                         !.tcg_game = Str("POKEMON"),
                                         !.condition_rank = Str("A")]],
    [_id |-> "665f000000000000004d5e6f", niche_type |-> "COLLECTION_FIGURES",
     title |-> "Nendoroid Miku, \"Snow\" ver.", price_jpy |-> 5000,
     image_urls |-> <<"https://img/2a.jpg", "https://img/2b.jpg", "https://img/2c.jpg">>,
     missing |-> {},
     attributes |-> [NoAttributes EXCEPT !.subcategory = Str("NENDOROID"),
                                         !.condition_rank = Str("B"),
                                         !.brand = Str("Good Smile Company")]],
    [_id |-> "665f00000000000000778899", niche_type |-> "WATCH",
     title |-> "", price_jpy |-> 2500,
     image_urls |-> <<>>, missing |-> {"image_urls", "title"},
     attributes |-> [NoAttributes EXCEPT !.condition_rank = Str("JUNK"),
                                         !.brand = Str("Seiko")]],
    [_id |-> "6660a1b2c3d4e5f6a71a2b3c", niche_type |-> "TCG",
     title |-> "Pikachu VMAX", price_jpy |-> 10000,
     image_urls |-> [k \in 1..MaxImages |-> "https://img/4-" \o ToString(k) \o ".jpg"],
     missing |-> {},
     attributes |-> [NoAttributes EXCEPT !.tcg_game = Str("YUGIOH"),
                                         !.condition_rank = Str("S")]]
>>

StoredIds == {Collection[i]._id : i \in 1..Len(Collection)}

\* an id no document has
UnknownId == "665f00000000000000ffffff"

\* the listingIds argument: left out, or an array of ids (kept as the set of its elements)
MissingIds == [present |-> FALSE, items |-> {}]

IdInputs == {MissingIds} \cup
    {[present |-> TRUE, items |-> S] : S \in SUBSET (StoredIds \cup {UnknownId})}

\* the netMarginPercent argument: left out, or a number inside or outside [0, 500]
ExportMarginInputs ==
    {Num(-1000), Num(25), Num(600), UndefinedNumber}
        \cup {Num(250 * k) : k \in 0..MaxExportMarginStep}

\* what the database does during the call
DbBehaviours == {"connectFails", "ok", "queryFails"}

\* Date.toISOString() at the time of the call, cut at its ':' and '.' characters
Clock == {
    <<"2026-01-15T09", ":", "30", ":", "00", ".", "000Z">>,
    <<"2026-03-02T18", ":", "05", ":", "59", ".", "120Z">>
}

Has(listing, property) == property \notin listing.missing

(***************************************************************************)
(* Outcome of a piece of code: it returns a value or throws an error       *)
(***************************************************************************)
Return(v) == [kind |-> "return", value |-> v]
Throw(message) == [kind |-> "throw", error |-> message]

(***************************************************************************)
(* eBay categories, condition codes and item specifics                     *)
(***************************************************************************)
EBAY_CATEGORIES ==
    [TCG |-> "183454", WATCH |-> "31387", CAMERA_GEAR |-> "15230",
     LUXURY_ITEM |-> "169291", VIDEOGAME |-> "139971", STATIONARY |-> "61778",
     COLLECTION_FIGURES |-> "261068"]

TCG_GAME_CATEGORIES ==
    [POKEMON |-> "183454", YUGIOH |-> "183444", ONE_PIECE |-> "183454", MAGIC |-> "38292"]

LUXURY_SUBCATEGORY_CATEGORIES ==
    [BAG |-> "169291", WALLET |-> "45258", ACCESSORY |-> "155183"]

VIDEOGAME_SUBCATEGORY_CATEGORIES ==
    [STANDING_CONSOLE |-> "139971", PORTABLE_CONSOLE |-> "171831",
     HYBRID_CONSOLE |-> "139971"]

STATIONARY_SUBCATEGORY_CATEGORIES ==
    [FOUNTAIN_PEN |-> "61778", BALLPOINT_PEN |-> "61782", MECHANICAL_PENCIL |-> "61780",
     PEN |-> "61778", WRITING_UTENSIL |-> "61778", PENCIL |-> "61779",
     MARKER |-> "61781", INK |-> "49004", NOTEBOOK |-> "159903"]

\* if (key && table[key]) return table[key]; return fallback
CategoryOr(table, key, fallback) ==
    IF Truthy(key) /\ Truthy(Lookup(table, String(key)))
    THEN Lookup(table, String(key))
    ELSE Str(fallback)

getTCGCategory(game) == CategoryOr(TCG_GAME_CATEGORIES, game, EBAY_CATEGORIES.TCG)

getLuxuryItemCategory(subcategory) ==
    CategoryOr(LUXURY_SUBCATEGORY_CATEGORIES, subcategory, EBAY_CATEGORIES.LUXURY_ITEM)

getVideogameCategory(subcategory) ==
    CategoryOr(VIDEOGAME_SUBCATEGORY_CATEGORIES, subcategory, EBAY_CATEGORIES.VIDEOGAME)

getStationaryCategory(subcategory) ==
    CategoryOr(STATIONARY_SUBCATEGORY_CATEGORIES, subcategory, EBAY_CATEGORIES.STATIONARY)

\* the mappings with the STANDARD codes of A and B exchanged
CONDITION_MAPPINGS_swapped ==
    [STANDARD |->
        [N |-> "1000", S |-> "1500", A |-> "4000", B |-> "3000", C |-> "5000",
         D |-> "6000", JUNK |-> "7000"],
     LUXURY_ITEM |->
        [N |-> "1000", S |-> "1500", A |-> "1750", B |-> "3000", C |-> "3000",
         D |-> "3000", JUNK |-> "3000"],
     RESTRICTED |->
        [N |-> "1000", S |-> "1500", A |-> "3000", B |-> "3000", C |-> "3000",
         D |-> "3000", JUNK |-> "7000"]]

CONDITION_MAPPINGS ==
    [STANDARD |->
        [N |-> "1000", S |-> "1500", A |-> "3000", B |-> "4000", C |-> "5000",
         D |-> "6000", JUNK |-> "7000"],
     LUXURY_ITEM |->
        [N |-> "1000", S |-> "1500", A |-> "1750", B |-> "3000", C |-> "3000",
         D |-> "3000", JUNK |-> "3000"],
     RESTRICTED |->
        [N |-> "1000", S |-> "1500", A |-> "3000", B |-> "3000", C |-> "3000",
         D |-> "3000", JUNK |-> "7000"]]

NICHE_CONDITION_STRATEGY ==
    [TCG |-> "STANDARD", WATCH |-> "STANDARD", CAMERA_GEAR |-> "STANDARD",
     LUXURY_ITEM |-> "LUXURY_ITEM", VIDEOGAME |-> "RESTRICTED",
     STATIONARY |-> "RESTRICTED", COLLECTION_FIGURES |-> "RESTRICTED"]

\* CONDITION_MAPPINGS[strategy] || CONDITION_MAPPINGS.STANDARD : the strategy is used
\* as a property name (a strategy found on Object.prototype prints as its source
\* text, which names no mapping)
ConditionMapOf(strategy) ==
    IF String(strategy) \in DOMAIN CONDITION_MAPPINGS
    THEN CONDITION_MAPPINGS[String(strategy)]
    ELSE CONDITION_MAPPINGS.STANDARD

mapToEBayCondition(rank, nicheType) ==
    IF Truthy(rank)
    THEN Or(Lookup(ConditionMapOf(IF nicheType # ""
                                  THEN Lookup(NICHE_CONDITION_STRATEGY, nicheType)
                                  ELSE Str("STANDARD")),
                   String(rank)),
            Str("3000"))
    ELSE Str("3000")

\* subcategory ? (styleMap[subcategory] || 'Shoulder Bag') : 'Shoulder Bag'
mapSubcategoryToStyle(subcategory) ==
    IF Truthy(subcategory)
    THEN Or(Lookup([BAG |-> "Shoulder Bag", WALLET |-> "Wallet",
                    ACCESSORY |-> "Fashion Accessory"], String(subcategory)),
            Str("Shoulder Bag"))
    ELSE Str("Shoulder Bag")

\* one character of toLowerCase (ASCII letters; other characters are kept)
LowerChar(c) ==
    IF \E i \in 1..26 : CharAt("ABCDEFGHIJKLMNOPQRSTUVWXYZ", i) = c
    THEN CharAt("abcdefghijklmnopqrstuvwxyz",
                CHOOSE i \in 1..26 : CharAt("ABCDEFGHIJKLMNOPQRSTUVWXYZ", i) = c)
    ELSE c

\* s.toLowerCase()
RECURSIVE toLowerCase(_)
toLowerCase(s) ==
    IF s = "" THEN ""
    ELSE IF Len(s) = 1 THEN LowerChar(s)
    ELSE toLowerCase(SubSeq(s, 1, Len(s) \div 2))
             \o toLowerCase(SubSeq(s, Len(s) \div 2 + 1, Len(s)))

\* value?.toLowerCase() || ''
LowerOrEmpty(v) == IF v[1] = "string" THEN toLowerCase(v[2]) ELSE ""

\* brandLower and titleLower already lowered
ExteriorMaterialOf(brandLower, titleLower) ==
    IF includes(brandLower, "louis vuitton") \/ includes(brandLower, "gucci")
          \/ includes(titleLower, "canvas")
    THEN "Canvas"
    ELSE "Leather"

determineExteriorMaterial(brand, title) ==
    ExteriorMaterialOf(LowerOrEmpty(brand), LowerOrEmpty(title))

\* the table with the basic colours ahead of the specific shades
colorPatterns_basicFirst == <<
    <<"black", "Black">>, <<"white", "White">>, <<"brown", "Brown">>, <<"red", "Red">>,
    <<"blue", "Blue">>, <<"green", "Green">>, <<"pink", "Pink">>, <<"purple", "Purple">>,
    <<"yellow", "Yellow">>, <<"orange", "Orange">>, <<"gray", "Gray">>, <<"grey", "Gray">>,
    <<"navy", "Blue">>, <<"beige", "Beige">>, <<"tan", "Beige">>, <<"burgundy", "Red">>,
    <<"rose", "Pink">>, <<"blush", "Pink">>, <<"cognac", "Brown">>, <<"camel", "Brown">>,
    <<"khaki", "Beige">>, <<"cream", "White">>, <<"ivory", "White">>,
    <<"silver", "Silver">>, <<"gold", "Gold">>, <<"metallic", "Silver">>
>>

\* Object.entries(colorPatterns), in insertion order
colorPatterns == <<
    <<"navy", "Blue">>, <<"beige", "Beige">>, <<"tan", "Beige">>, <<"burgundy", "Red">>,
    <<"rose", "Pink">>, <<"blush", "Pink">>, <<"cognac", "Brown">>, <<"camel", "Brown">>,
    <<"khaki", "Beige">>, <<"cream", "White">>, <<"ivory", "White">>,
    <<"silver", "Silver">>, <<"gold", "Gold">>, <<"metallic", "Silver">>,
    <<"black", "Black">>, <<"white", "White">>, <<"brown", "Brown">>, <<"red", "Red">>,
    <<"blue", "Blue">>, <<"green", "Green">>, <<"pink", "Pink">>, <<"purple", "Purple">>,
    <<"yellow", "Yellow">>, <<"orange", "Orange">>, <<"gray", "Gray">>, <<"grey", "Gray">>
>>

\* brandLower and titleLower already lowered: the first pattern the title includes
\* decides; else the brand's default; else Brown
ColorOf(brandLower, titleLower) ==
    IF \E i \in 1..Len(colorPatterns) : includes(titleLower, colorPatterns[i][1])
    THEN colorPatterns[CHOOSE i \in 1..Len(colorPatterns) :
                           /\ includes(titleLower, colorPatterns[i][1])
                           /\ \A j \in 1..(i - 1) :
                                  ~includes(titleLower, colorPatterns[j][1])][2]
    ELSE IF includes(brandLower, "louis vuitton") THEN "Brown"
    ELSE IF includes(brandLower, "gucci") THEN "Brown"
    ELSE IF includes(brandLower, "chanel") THEN "Black"
    ELSE IF includes(brandLower, "hermes") THEN "Brown"   \* and its accented spelling
    ELSE "Brown"

determineColor(brand, title) == ColorOf(LowerOrEmpty(brand), LowerOrEmpty(title))

(***************************************************************************)
(* Row mapping.  The columns modelled are the category, title, price,      *)
(* brand, pictures, condition and type, the item specifics of every niche  *)
(* and the shipping cost; the description, C:Model and the constant        *)
(* columns are left out.                                                   *)
(***************************************************************************)
EBayHeaders == <<"*Category", "*Title", "*StartPrice", "C:Brand", "PicURL", "ConditionID",
                 "C:Type", "C:Exterior Color", "C:Exterior Material", "C:Department",
                 "C:Style", "Color", "C:Platform", "C:Band Material", "C:Case Material",
                 "C:Movement", "C:Dial Color", "C:Series", "C:Megapixels",
                 "C:Optical Zoom", "C:Card Name", "C:Card Number", "C:Set", "C:Rarity",
                 "C:Language", "C:Ink Color", "C:Point Size", "C:Features",
                 "C:Character", "C:Character Family", "C:Scale", "C:Material",
                 "ShippingService-1:Cost">>

\* ebayCategory of listingToEBayRow
EBayCategoryOf(listing) ==
    IF listing.niche_type = "TCG" THEN getTCGCategory(listing.attributes.game)
    ELSE IF listing.niche_type = "LUXURY_ITEM"
    THEN getLuxuryItemCategory(listing.attributes.subcategory)
    ELSE IF listing.niche_type = "VIDEOGAME"
    THEN getVideogameCategory(listing.attributes.subcategory)
    ELSE IF listing.niche_type = "STATIONARY"
    THEN getStationaryCategory(listing.attributes.subcategory)
    ELSE Or(Lookup(EBAY_CATEGORIES, listing.niche_type), Str("15230"))

\* the first n elements of a sequence: slice(0, n)
slice(seq, n) == IF Len(seq) <= n THEN seq ELSE SubSeq(seq, 1, n)

\* the row literal of listingToEBayRow
EBayBaseRow(listing, priceUSD) ==
    ("*Category" :> EBayCategoryOf(listing))
    @@ ("*Title" :> Str(substring(listing.title, 80)))
    @@ ("*StartPrice" :> Str(priceUSD))
    @@ ("C:Brand" :> Or(listing.attributes.brand, Str("Unbranded")))
    @@ ("PicURL" :> Str(Join(slice(listing.image_urls, 12), "|")))
    @@ ("ConditionID" :>
            mapToEBayCondition(listing.attributes.condition_rank, listing.niche_type))
    @@ ("C:Type" :> Or(listing.attributes.subcategory, Str(listing.niche_type)))
    @@ ("ShippingService-1:Cost" :> Str("0.00"))

\* bag fields with a bare Color next to them
LuxuryBagFields_withColor(listing) ==
    ("C:Exterior Color" :> Str("Brown"))
    @@ ("C:Exterior Material" :> Str("Leather"))
    @@ ("C:Department" :> Str("Women"))
    @@ ("C:Style" :> Str("Shoulder Bag"))
    @@ ("Color" :> Str("Brown"))

\* the fields of a bag: C:Exterior Color, C:Exterior Material, C:Department, C:Style
LuxuryBagFields(listing) ==
    ("C:Exterior Color" :> Str(determineColor(listing.attributes.brand, Str(listing.title))))
    @@ ("C:Exterior Material" :>
            Str(determineExteriorMaterial(listing.attributes.brand, Str(listing.title))))
    @@ ("C:Department" :> Str("Women"))
    @@ ("C:Style" :> Str("Shoulder Bag"))

\* (value || '').toLowerCase()
LowerOf(v) == toLowerCase(String(Or(v, Str(""))))

\* the platform of a console: brand and modelNumber already lowered
PlatformOf(brandLower, modelLower) ==
    IF includes(brandLower, "nintendo")
    THEN IF includes(modelLower, "switch") THEN "Nintendo Switch"
         ELSE IF includes(modelLower, "game boy") THEN "Nintendo Game Boy"
         ELSE IF includes(modelLower, "3ds") THEN "Nintendo 3DS"
         ELSE IF includes(modelLower, "ds") THEN "Nintendo DS"
         ELSE IF includes(modelLower, "wii") THEN "Nintendo Wii"
         ELSE "Nintendo"
    ELSE IF includes(brandLower, "sony")
    THEN IF includes(modelLower, "playstation") \/ includes(modelLower, "ps")
         THEN "Sony PlayStation"
         ELSE IF includes(modelLower, "psp") THEN "Sony PSP"
         ELSE IF includes(modelLower, "vita") THEN "Sony PlayStation Vita"
         ELSE "Sony PlayStation"
    ELSE IF includes(brandLower, "microsoft") THEN "Microsoft Xbox"
    ELSE IF includes(brandLower, "sega") THEN "Sega"
    ELSE "See description"

\* the fields of a console: C:Platform, and C:Type overwritten
VideogameFields(listing) ==
    ("C:Platform" :> Str(PlatformOf(LowerOf(listing.attributes.brand),
                                    LowerOf(listing.attributes.model_number))))
    @@ ("C:Type" :> Str("Console"))

\* watch fields with the material of a figure next to them
WatchFields_withMaterial(listing) ==
    ("C:Band Material" :> Str("Stainless Steel"))
    @@ ("C:Case Material" :> Str("Stainless Steel"))
    @@ ("C:Movement" :> Str("Automatic"))
    @@ ("C:Dial Color" :> Str(determineColor(listing.attributes.brand, Str(listing.title))))
    @@ ("C:Material" :> Str("Stainless Steel"))

\* the fields of a watch
WatchFields(listing) ==
    ("C:Band Material" :> Str("Stainless Steel"))
    @@ ("C:Case Material" :> Str("Stainless Steel"))
    @@ ("C:Movement" :> Str("Automatic"))
    @@ ("C:Dial Color" :> Str(determineColor(listing.attributes.brand, Str(listing.title))))

\* s.split(' ')[0]: the text before the first space
FirstWord(s) ==
    IF includes(s, " ")
    THEN SubSeq(s, 1, (CHOOSE i \in 1..Len(s) :
                           /\ CharAt(s, i) = " "
                           /\ \A j \in 1..(i - 1) : CharAt(s, j) # " ") - 1)
    ELSE s

\* the fields of a camera
CameraFields(listing) ==
    ("C:Series" :> Or(Str(FirstWord(String(Or(listing.attributes.model_number, Str(""))))),
                      Str("See description")))
    @@ ("C:Megapixels" :> Str("See description"))
    @@ ("C:Optical Zoom" :> Str("See description"))

\* the fields of a card
CardFields(listing) ==
    ("C:Card Name" :> Str(substring(listing.title, 50)))
    @@ ("C:Card Number" :> Or(listing.attributes.card_number, Str("See description")))
    @@ ("C:Set" :> Or(listing.attributes.set_code,
                      Or(listing.attributes.set, Str("See description"))))
    @@ ("C:Rarity" :> Or(listing.attributes.rarity, Str("See description")))
    @@ ("C:Language" :> Or(listing.attributes.language, Str("Japanese")))

\* the fields of a pen; other stationary gets none
StationaryFields(listing) ==
    IF Or(listing.attributes.subcategory, Str(""))
          \in {Str("BALLPOINT_PEN"), Str("FOUNTAIN_PEN"), Str("PEN")}
    THEN ("C:Ink Color" :> Str("Black"))
         @@ ("C:Point Size" :> Str("Medium"))
         @@ ("C:Features" :> IF listing.attributes.subcategory = Str("FOUNTAIN_PEN")
                             THEN Str("Refillable")
                             ELSE Str("See description"))
    ELSE <<>>

\* the fields of a figure; C:Character only when the listing names one
FigureFields(listing) ==
    (IF Truthy(Or(listing.attributes.character_name, Str("")))
     THEN ("C:Character" :> Or(listing.attributes.character_name, Str("")))
     ELSE <<>>)
    @@ ("C:Character Family" :>
            IF includes(LowerOf(listing.attributes.brand), "bandai")
                  \/ includes(LowerOf(listing.attributes.brand), "good smile")
            THEN Str("Anime")
            ELSE Str("See description"))
    @@ ("C:Scale" :>
            IF Or(listing.attributes.subcategory, Str("")) = Str("SCALE_FIGURE")
            THEN Str("1:8")
            ELSE IF Or(listing.attributes.subcategory, Str(""))
                        \in {Str("FIGMA"), Str("NENDOROID")}
            THEN Str("Non-Scale")
            ELSE Str("See description"))
    @@ ("C:Material" :> Str("PVC"))

\* the item specifics listingToEBayRow adds for the listing's niche
EBayNicheFields(listing) ==
    IF listing.niche_type = "LUXURY_ITEM"
    THEN IF listing.attributes.subcategory = Str("BAG")
         THEN LuxuryBagFields(listing)
         ELSE IF listing.attributes.subcategory \in {Str("ACCESSORY"), Str("WALLET")}
         THEN ("Color" :> Str(determineColor(listing.attributes.brand, Str(listing.title))))
              @@ ("C:Department" :> Str("Women"))
              @@ ("C:Style" :> mapSubcategoryToStyle(listing.attributes.subcategory))
         ELSE LuxuryBagFields(listing)
    ELSE IF listing.niche_type = "VIDEOGAME" THEN VideogameFields(listing)
    ELSE IF listing.niche_type = "WATCH" THEN WatchFields(listing)
    ELSE IF listing.niche_type = "CAMERA_GEAR" THEN CameraFields(listing)
    ELSE IF listing.niche_type = "TCG" THEN CardFields(listing)
    ELSE IF listing.niche_type = "STATIONARY" THEN StationaryFields(listing)
    ELSE IF listing.niche_type = "COLLECTION_FIGURES" THEN FigureFields(listing)
    ELSE <<>>

\* listingToEBayRow: the price is computed first; the category reads attributes.game
\* or attributes.subcategory; the row literal reads listing.title, then (in the
\* description) attributes.condition_rank, then listing.image_urls
listingToEBayRow(listing, netMarginPercentArg) ==
    LET netMarginPercent == DefaultArg(netMarginPercentArg, Num(25))
        costUSD == JMul(ToNumber(Has(listing, "price_jpy"), listing.price_jpy),
                        JPY_TO_USD_RATE)
        shippingCost == getShippingCost(listing.niche_type)
        priceUSD ==
            toFixed(calculateSalePriceWithMargin(costUSD, netMarginPercent, shippingCost), 2)
    IN IF ~Has(listing, "attributes") /\ listing.niche_type = "TCG"
       THEN Throw("TypeError: Cannot read properties of undefined (reading 'game')")
       ELSE IF ~Has(listing, "attributes")
                 /\ listing.niche_type \in {"LUXURY_ITEM", "STATIONARY", "VIDEOGAME"}
       THEN Throw("TypeError: Cannot read properties of undefined (reading 'subcategory')")
       ELSE IF ~Has(listing, "title")
       THEN Throw("TypeError: Cannot read properties of undefined (reading 'substring')")
       ELSE IF ~Has(listing, "attributes")
       THEN Throw("TypeError: Cannot read properties of undefined (reading 'condition_rank')")
       ELSE IF ~Has(listing, "image_urls")
       THEN Throw("TypeError: Cannot read properties of undefined (reading 'slice')")
       ELSE Return(EBayNicheFields(listing) @@ EBayBaseRow(listing, priceUSD))

ShopifyHeaders == <<"Handle", "Title", "Variant Price", "Image Src", "Image Position",
                    "Image Alt Text", "Collection", "Cost per item">>

SHOPIFY_TCG_COLLECTIONS ==
    [POKEMON |-> "Pokemon Card Game", YUGIOH |-> "Yu-Gi-Oh!",
     ONE_PIECE |-> "One Piece Card Game", MAGIC |-> "Magic: The Gathering",
     UNION_ARENA |-> "Union Arena", WEISS_SCHWARZ |-> "", DRAGON_BALL |-> "",
     DIGIMON |-> "", VANGUARD |-> "", DUEL_MASTERS |-> "",
     HOLOLIVE |-> "hololive Official Card Game"]

\* the three replaces of generateHandle on a lower-cased title: characters other
\* than a-z, 0-9, whitespace and '-' are dropped, then every run of whitespace
\* and every run of '-' becomes one '-' (inRun: the last character kept began or
\* continued such a run)
\* what the character at position i leaves in the handle: a letter or digit stays;
\* white space or a hyphen leaves one hyphen for the whole run it starts, the
\* removed characters between two of them not counting; anything else is removed
HandleChar(s, i) ==
    IF CharAt(s, i) \in {"\t", "\n", " ", "-"}
    THEN IF \E j \in 1..(i - 1) :
                /\ CharAt(s, j) \in {"\t", "\n", " ", "-"}
                /\ \A k \in (j + 1)..(i - 1) :
                      ~includes("0123456789abcdefghijklmnopqrstuvwxyz", CharAt(s, k))
         THEN ""
         ELSE "-"
    ELSE IF includes("0123456789abcdefghijklmnopqrstuvwxyz", CharAt(s, i))
    THEN CharAt(s, i)
    ELSE ""

\* the three replace calls of generateHandle on the characters lo..hi of s
RECURSIVE HandleChars(_, _, _)
HandleChars(s, lo, hi) ==
    IF lo > hi THEN ""
    ELSE IF lo = hi THEN HandleChar(s, lo)
    ELSE HandleChars(s, lo, (lo + hi) \div 2) \o HandleChars(s, (lo + hi) \div 2 + 1, hi)

\* generateHandle: the cleaned title cut at 50 characters, '-', the last 6
\* characters of the id
generateHandle(listing) ==
    substring(HandleChars(toLowerCase(listing.title), 1, Len(listing.title)), 50)
        \o "-" \o SubSeq(listing._id, Len(listing._id) - 5, Len(listing._id))

\* listingToShopifyRow: the price is computed first, then generateHandle reads
\* listing.title and the row literal reads listing.image_urls[0]
listingToShopifyRow(listing, netMarginPercentArg) ==
    LET netMarginPercent == DefaultArg(netMarginPercentArg, Num(25))
        price_jpy == ToNumber(Has(listing, "price_jpy"), listing.price_jpy)
        priceUSD == calculateShopifyPrice(price_jpy, netMarginPercent)
    IN IF ~Has(listing, "title")
       THEN Throw("TypeError: Cannot read properties of undefined (reading 'toLowerCase')")
       ELSE IF ~Has(listing, "image_urls")
       THEN Throw("TypeError: Cannot read properties of undefined (reading '0')")
       ELSE Return(("Handle" :> Str(generateHandle(listing)))
                   @@ ("Title" :> Str(substring(listing.title, 255)))
                   @@ ("Variant Price" :> Str(toFixed(priceUSD, 2)))
                   @@ ("Image Src" :> Str(IF Len(listing.image_urls) > 0
                                          THEN listing.image_urls[1] ELSE ""))
                   @@ ("Image Position" :> Str("1"))
                   @@ ("Image Alt Text" :> Str(substring(listing.title, 125)))
                   @@ ("Collection" :>
                           IF listing.niche_type = "TCG"
                                 /\ Truthy(listing.attributes.tcg_game)
                           THEN Or(Lookup(SHOPIFY_TCG_COLLECTIONS,
                                          String(listing.attributes.tcg_game)),
                                   Str(""))
                           ELSE Str(""))
                   @@ ("Cost per item" :>
                           Str(toFixed(JMul(price_jpy, JPY_TO_USD_RATE), 2))))

Min(a, b) == IF a < b THEN a ELSE b

\* image rows without the cap of 10
ShopifyImageRows_uncapped(listing, baseRow) ==
    [k \in 1..(Len(listing.image_urls) - 1) |->
        ("Handle" :> baseRow["Handle"])
        @@ ("Title" :> Str(""))
        @@ ("Variant Price" :> Str(""))
        @@ ("Image Src" :> Str(listing.image_urls[k + 1]))
        @@ ("Image Position" :> Str(ToString(k + 1)))
        @@ ("Image Alt Text" :>
                Str(substring(listing.title, 100) \o " - Image " \o ToString(k + 1)))
        @@ ("Collection" :> Str(""))
        @@ ("Cost per item" :> Str(""))]

\* the continuation rows of one listing: one per image after the first, up to the tenth
ShopifyImageRows(listing, baseRow) ==
    [k \in 1..(Min(Len(listing.image_urls), 10) - 1) |->
        ("Handle" :> baseRow["Handle"])
        @@ ("Title" :> Str(""))
        @@ ("Variant Price" :> Str(""))
        @@ ("Image Src" :> Str(listing.image_urls[k + 1]))
        @@ ("Image Position" :> Str(ToString(k + 1)))
        @@ ("Image Alt Text" :>
                Str(substring(listing.title, 100) \o " - Image " \o ToString(k + 1)))
        @@ ("Collection" :> Str(""))
        @@ ("Cost per item" :> Str(""))]

\* an escaping that looks for commas only
CsvField_commaOnly(stringValue) ==
    IF includes(stringValue, ",")
    THEN "\"" \o DoubleQuotes(stringValue) \o "\""
    ELSE stringValue

\* one field of objectToCSVLine: wrapped in quotes, its quotes doubled, when it
\* includes a comma, a quote or a newline
CsvField(stringValue) ==
    IF includes(stringValue, ",") \/ includes(stringValue, "\"")
          \/ includes(stringValue, "\n")
    THEN "\"" \o DoubleQuotes(stringValue) \o "\""
    ELSE stringValue

\* a serialisation without the || '' default
objectToCSVLine_noDefault(obj, headers) ==
    Join([i \in 1..Len(headers) |-> CsvField(String(Get(obj, headers[i])))], ",")

\* objectToCSVLine: String(obj[header] || '') of each header, escaped, joined by commas
objectToCSVLine(obj, headers) ==
    Join([i \in 1..Len(headers) |-> CsvField(String(Or(Get(obj, headers[i]), Str(""))))],
         ",")

(***************************************************************************)
(* Export orchestrators                                                    *)
(***************************************************************************)
RECURSIVE Concat(_)
Concat(parts) ==
    IF parts = <<>> THEN ""
    ELSE IF Len(parts) = 1 THEN parts[1]
    ELSE Concat(SubSeq(parts, 1, Len(parts) \div 2))
             \o Concat(SubSeq(parts, Len(parts) \div 2 + 1, Len(parts)))

\* new Date().toISOString().replace(/[:.]/g, '-').split('.')[0]
Timestamp(now) ==
    Concat([i \in 1..Len(now) |-> IF now[i] \in {".", ":"} THEN "-" ELSE now[i]])

\* a lookup that matches only when every requested id is stored
Find_allOrNothing(ids) ==
    IF ids \subseteq StoredIds THEN SelectSeq(Collection, LAMBDA l : l._id \in ids) ELSE <<>>

\* collection.find({ _id: { $in: listingIds } }).toArray()
Find(ids) == SelectSeq(Collection, LAMBDA l : l._id \in ids)

\* the guard without its length test
IsEmptySelection_onlyMissing(listingIds) == ~listingIds.present

\* !listingIds || listingIds.length === 0
IsEmptySelection(listingIds) == ~listingIds.present \/ Cardinality(listingIds.items) = 0

EmptySelectionResult == [success |-> FALSE, error |-> "No listings selected for export"]

\* a not-found branch that reuses the catch block's message
NotFoundResult_generic == [success |-> FALSE, error |-> "Failed to export listings"]

NotFoundResult == [success |-> FALSE, error |-> "No listings found with the provided IDs"]

\* a catch block that hands the exception text to the caller
CatchResult_leak(error) == [success |-> FALSE, error |-> error]

\* a catch block that reports the failure without a message
CatchResult_bare(error) == [success |-> FALSE]

\* the catch block: logs the error, returns the generic failure
CatchResult(error) == [success |-> FALSE, error |-> "Failed to export listings"]

\* index of the first element of `outs` that threw, 0 when none did
FirstThrow(outs) ==
    IF \E i \in 1..Len(outs) : outs[i].kind = "throw"
    THEN CHOOSE i \in 1..Len(outs) :
            /\ outs[i].kind = "throw"
            /\ \A j \in 1..(i - 1) : outs[j].kind = "return"
    ELSE 0

RECURSIVE Flatten(_)
Flatten(seqs) ==
    IF seqs = <<>> THEN <<>>
    ELSE IF Len(seqs) = 1 THEN seqs[1]
    ELSE Flatten(SubSeq(seqs, 1, Len(seqs) \div 2))
             \o Flatten(SubSeq(seqs, Len(seqs) \div 2 + 1, Len(seqs)))

\* csvLines.join('\n'): the header row and one line per row
EBayCsv(csvRows) ==
    Join(<<Join(EBayHeaders, ",")>>
             \o [i \in 1..Len(csvRows) |-> objectToCSVLine(csvRows[i], EBayHeaders)],
         "\n")

\* exportToEBayCSV after listings.map: a row that threw ends the try block, else the
\* csv is built and returned with its filename
EBayMapped(mapped, now) ==
    IF FirstThrow(mapped) # 0
    THEN [out |-> mapped[FirstThrow(mapped)], finds |-> 1, prices |-> FirstThrow(mapped)]
    ELSE [out |-> Return([success |-> TRUE,
                          csv |-> EBayCsv([i \in 1..Len(mapped) |-> mapped[i].value]),
                          filename |-> "ebay-listings-" \o Timestamp(now) \o ".csv"]),
          finds |-> 1, prices |-> Len(mapped)]

\* exportToEBayCSV after the lookup: nothing found, or every listing mapped to a row
EBayFetched(listings, netMarginPercent, now) ==
    IF Len(listings) = 0
    THEN [out |-> Return(NotFoundResult), finds |-> 1, prices |-> 0]
    ELSE EBayMapped([i \in 1..Len(listings) |->
                        listingToEBayRow(listings[i], netMarginPercent)], now)

\* the try block of exportToEBayCSV: its outcome, and the lookups and prices it made
EBayTryBlock(listingIds, netMarginPercent, db, now) ==
    IF IsEmptySelection(listingIds)
    THEN [out |-> Return(EmptySelectionResult), finds |-> 0, prices |-> 0]
    ELSE IF db = "connectFails"
    THEN [out |-> Throw("MongoServerSelectionError: connect ECONNREFUSED 127.0.0.1:27017"),
          finds |-> 0, prices |-> 0]
    ELSE IF db = "queryFails"
    THEN [out |-> Throw("MongoNetworkError: connection 3 to 127.0.0.1:27017 closed"),
          finds |-> 1, prices |-> 0]
    ELSE EBayFetched(Find(listingIds.items), netMarginPercent, now)

\* try { ... } catch (error) { ... }: what the try block threw is caught and logged,
\* and the catch block's result is returned
TryCatch(t) ==
    IF t.out.kind = "throw"
    THEN [out |-> Return(CatchResult(t.out.error)), raised |-> t.out.error,
          finds |-> t.finds, prices |-> t.prices]
    ELSE [out |-> t.out, raised |-> NoError, finds |-> t.finds, prices |-> t.prices]

\* exportToEBayCSV: the try block, and the catch block around all of it
exportToEBayCSV(listingIds, netMarginPercent, db, now) ==
    TryCatch(EBayTryBlock(listingIds, netMarginPercent, db, now))

\* csvLines.join('\n'): the header row and one line per row
ShopifyCsv(allRows) ==
    Join(<<Join(ShopifyHeaders, ",")>>
             \o [i \in 1..Len(allRows) |-> objectToCSVLine(allRows[i], ShopifyHeaders)],
         "\n")

\* exportToShopifyCSV after listings.map: a row that threw ends the try block, else
\* each row is followed by its image rows and the csv is returned with its filename
ShopifyMapped(listings, mapped, now) ==
    IF FirstThrow(mapped) # 0
    THEN [out |-> mapped[FirstThrow(mapped)], finds |-> 1, prices |-> FirstThrow(mapped)]
    ELSE [out |-> Return([success |-> TRUE,
                          csv |-> ShopifyCsv(Flatten([i \in 1..Len(listings) |->
                                     <<mapped[i].value>>
                                         \o ShopifyImageRows(listings[i], mapped[i].value)])),
                          filename |-> "shopify-products-" \o Timestamp(now) \o ".csv"]),
          finds |-> 1, prices |-> Len(mapped)]

\* exportToShopifyCSV after the lookup: nothing found, or every listing mapped to a row
ShopifyFetched(listings, netMarginPercent, now) ==
    IF Len(listings) = 0
    THEN [out |-> Return(NotFoundResult), finds |-> 1, prices |-> 0]
    ELSE ShopifyMapped(listings,
                       [i \in 1..Len(listings) |->
                           listingToShopifyRow(listings[i], netMarginPercent)], now)

\* the try block of exportToShopifyCSV
ShopifyTryBlock(listingIds, netMarginPercent, db, now) ==
    IF IsEmptySelection(listingIds)
    THEN [out |-> Return(EmptySelectionResult), finds |-> 0, prices |-> 0]
    ELSE IF db = "connectFails"
    THEN [out |-> Throw("MongoServerSelectionError: connect ECONNREFUSED 127.0.0.1:27017"),
          finds |-> 0, prices |-> 0]
    ELSE IF db = "queryFails"
    THEN [out |-> Throw("MongoNetworkError: connection 3 to 127.0.0.1:27017 closed"),
          finds |-> 1, prices |-> 0]
    ELSE ShopifyFetched(Find(listingIds.items), netMarginPercent, now)

\* exportToShopifyCSV: the try block, and the catch block around all of it
exportToShopifyCSV(listingIds, netMarginPercent, db, now) ==
    TryCatch(ShopifyTryBlock(listingIds, netMarginPercent, db, now))

(***************************************************************************)
(* The export server actions as a state machine                            *)
(***************************************************************************)
\* the arguments of a call, the database's behaviour during it and the time it is
\* made are drawn here; no call has been made
Init ==
    /\ call \in [fn : {"none"}, listingIds : IdInputs,
                 netMarginPercent : ExportMarginInputs, db : DbBehaviours, now : Clock]
    /\ result = NoResult
    /\ findCalls = 0
    /\ priceCalls = 0
    /\ raised = NoError
    /\ escaped = FALSE
    /\ pin = [averagePrice |-> 0, shippingCost |-> Num(0), margin |-> Num(0)]
    /\ pout = NoPricing
    /\ cin = <<>>
    /\ cout = NoReturn
    /\ modal = NoModal
    /\ event = NoEvent
    /\ lin = NoListing
    /\ rout = NoReturn

\* a call of exportToEBayCSV, from its arguments to the result it resolves to
ExportToEBayCSV ==
    LET done == exportToEBayCSV(call.listingIds, call.netMarginPercent, call.db, call.now)
    IN /\ call' = [call EXCEPT !.fn = "exportToEBayCSV"]
       /\ result' = IF done.out.kind = "return" THEN done.out.value ELSE NoResult
       /\ escaped' = (done.out.kind = "throw")
       /\ raised' = done.raised
       /\ findCalls' = done.finds
       /\ priceCalls' = done.prices
       /\ UNCHANGED <<pricingVars, cin, cout, lin, rout, modal, event>>

\* a call of exportToShopifyCSV, from its arguments to the result it resolves to
ExportToShopifyCSV ==
    LET done == exportToShopifyCSV(call.listingIds, call.netMarginPercent, call.db, call.now)
    IN /\ call' = [call EXCEPT !.fn = "exportToShopifyCSV"]
       /\ result' = IF done.out.kind = "return" THEN done.out.value ELSE NoResult
       /\ escaped' = (done.out.kind = "throw")
       /\ raised' = done.raised
       /\ findCalls' = done.finds
       /\ priceCalls' = done.prices
       /\ UNCHANGED <<pricingVars, cin, cout, lin, rout, modal, event>>

Next == ExportToEBayCSV \/ ExportToShopifyCSV

Spec == Init /\ [][Next]_vars

(***************************************************************************)
(* objectToCSVLine on its own: a row of three columns of the eBay file     *)
(***************************************************************************)
CsvHeaders == <<"*Title", "C:Brand", "Color">>

\* the strings of length n or less over an ordinary character, the comma, the
\* double quote and the newline
RECURSIVE Strings(_)
Strings(n) ==
    IF n = 0 THEN {""}
    ELSE Strings(n - 1) \cup {s \o c : s \in Strings(n - 1), c \in {"\n", "\"", ",", "a"}}

\* marks a key the row object does not have
Absent == <<"absent", "">>

\* the object with the cells that are not Absent
RowOf(cells) == [h \in {k \in DOMAIN cells : cells[k] # Absent} |-> cells[h]]

\* rows whose title is any short string, whose brand is missing, undefined, null,
\* empty or a string, and whose color is missing or a string
RowInputs ==
    {RowOf(("*Title" :> Str(t)) @@ ("C:Brand" :> b) @@ ("Color" :> c)) :
        t \in Strings(MaxFieldLen),
        b \in {Absent, Undefined, Null, Str(""), Str("Unbranded"),
               Str("Louis \"LV\", Paris")},
        c \in {Absent, Str("Black"), Str("a\nb")}}

InitCsv ==
    /\ cin \in RowInputs
    /\ cout = NoReturn
    /\ modal = NoModal
    /\ event = NoEvent
    /\ call = NoCall
    /\ result = NoResult
    /\ findCalls = 0
    /\ priceCalls = 0
    /\ raised = NoError
    /\ escaped = FALSE
    /\ pin = [averagePrice |-> 0, shippingCost |-> Num(0), margin |-> Num(0)]
    /\ pout = NoPricing
    /\ lin = NoListing
    /\ rout = NoReturn

\* a call of objectToCSVLine with the row and the headers
ObjectToCSVLine ==
    /\ cout' = [fn |-> "objectToCSVLine", line |-> objectToCSVLine(cin, CsvHeaders)]
    /\ UNCHANGED <<cin, exportVars, pricingVars, lin, rout, modal, event>>

SpecCsv == InitCsv /\ [][ObjectToCSVLine]_vars

(***************************************************************************)
(* listingToEBayRow and the helpers it calls, on one listing               *)
(***************************************************************************)
\* a title of exactly 80 characters
Title80 == "Chanel Classic Double Flap Medium Caviar Leather Shoulder Bag Gold Hardware 2019"

\* listings of the seven niches and of a niche the tables do not know; the
\* condition rank is absent, one of the seven ranks or a string that is no rank;
\* attributes.game of a TCG listing and attributes.subcategory of any other is
\* absent, a key of an override table or a string that is no key
ListingInputs ==
    {[_id |-> "665f000000000000001a2b3c", niche_type |-> niche, title |-> "Pikachu VMAX",
      price_jpy |-> 10000, image_urls |-> <<"https://img/1a.jpg">>, missing |-> {},
      attributes |-> [NoAttributes EXCEPT
                          !.game = IF niche = "TCG" THEN key ELSE Undefined,
                          !.subcategory = IF niche = "TCG" THEN Undefined ELSE key,
                          !.condition_rank = rank, !.brand = brand]] :
        niche \in {"CAMERA_GEAR", "COLLECTION_FIGURES", "FURNITURE", "LUXURY_ITEM",
                   "STATIONARY", "TCG", "VIDEOGAME", "WATCH"},
        rank \in {Undefined, Str("A"), Str("B"), Str("C"), Str("D"), Str("JUNK"),
                  Str("N"), Str("S"), Str("X"), Str("constructor")},
        key \in {Undefined, Str("ACCESSORY"), Str("BAG"), Str("INK"), Str("MAGIC"),
                 Str("NENDOROID"), Str("PORTABLE_CONSOLE"), Str("WALLET"),
                 Str("constructor")},
        brand \in {Undefined, Str("Louis Vuitton")}}
    \cup
    \* listings whose title has 80 to 80 + MaxOverLength characters
    {[_id |-> "665f000000000000001a2b3c", niche_type |-> niche,
      title |-> Title80 \o SubSeq(" Authentic", 1, k),
      price_jpy |-> 10000, image_urls |-> <<"https://img/1a.jpg">>, missing |-> {},
      attributes |-> [NoAttributes EXCEPT
                          !.game = IF niche = "TCG" THEN key ELSE Undefined,
                          !.subcategory = IF niche = "TCG" THEN Undefined ELSE key,
                          !.condition_rank = Str("A"), !.brand = brand]] :
        niche \in {"CAMERA_GEAR", "COLLECTION_FIGURES", "FURNITURE", "LUXURY_ITEM",
                   "STATIONARY", "TCG", "VIDEOGAME", "WATCH"},
        key \in {Undefined, Str("ACCESSORY"), Str("BAG"), Str("WALLET")},
        k \in 0..MaxOverLength,
        brand \in {Undefined, Str("Louis Vuitton")}}
    \cup
    \* cards whose game is recorded under attributes.game, attributes.tcg_game,
    \* both or neither
    {[_id |-> "665f000000000000001a2b3c", niche_type |-> "TCG", title |-> "Pikachu VMAX",
      price_jpy |-> 10000, image_urls |-> <<"https://img/1a.jpg">>, missing |-> {},
      attributes |-> [NoAttributes EXCEPT !.game = game, !.tcg_game = tcg_game,
                                          !.condition_rank = Str("A")]] :
        game \in {Undefined, Str("MAGIC"), Str("YUGIOH")},
        tcg_game \in {Undefined, Str("MAGIC"), Str("ONE_PIECE"), Str("POKEMON"),
                      Str("WEISS_SCHWARZ"), Str("YUGIOH")}}
    \cup
    \* bags and watches whose title names no colour, one colour or two, of brands
    \* with and without a default colour
    {[_id |-> "665f000000000000001a2b3c", niche_type |-> niche, title |-> title,
      price_jpy |-> 10000, image_urls |-> <<"https://img/1a.jpg">>, missing |-> {},
      attributes |-> [NoAttributes EXCEPT
                          !.subcategory = IF niche = "WATCH" THEN Undefined ELSE Str("BAG"),
                          !.condition_rank = Str("A"), !.brand = brand]] :
        niche \in {"LUXURY_ITEM", "WATCH"},
        title \in {"BURGUNDY Red Clutch", "Black Navy Tote", "Grey Flap Bag",
                   "Orange Gray Scarf", "Plain Tote", "Rose Gold Clutch",
                   "Titanium Case", "Yellow Gold Watch"},
        brand \in {Undefined, Str("CHANEL"), Str("Chanel"), Str("Gucci"), Str("Hermes"),
                   Str("Louis Vuitton"), Str("Prada")}}
    \cup
    \* consoles by brand and model number
    {[_id |-> "665f000000000000001a2b3c", niche_type |-> "VIDEOGAME",
      title |-> "Game Console", price_jpy |-> 10000,
      image_urls |-> <<"https://img/1a.jpg">>, missing |-> {},
      attributes |-> [NoAttributes EXCEPT
                          !.subcategory = Str("PORTABLE_CONSOLE"),
                          !.condition_rank = Str("A"), !.brand = brand,
                          !.model_number = model]] :
        brand \in {Undefined, Str("Atari"), Str("Microsoft"), Str("Nintendo"),
                   Str("SEGA"), Str("Sony"), Str("Sony Computer Entertainment")},
        model \in {Undefined, Str("3DS LL"), Str("DSi"), Str("Game Boy DMG-01"),
                   Str("HAC-001 Switch"), Str("PCH-1000 Vita"), Str("PSP-3000"),
                   Str("PlayStation 5"), Str("Wii RVL-001"), Str("Xbox 360")}}
    \cup
    \* listings of every niche that carry the attributes of all the others
    {[_id |-> "665f000000000000001a2b3c", niche_type |-> niche,
      title |-> "Black Navy Tote", price_jpy |-> 10000,
      image_urls |-> <<"https://img/1a.jpg">>, missing |-> {},
      attributes |-> [game |-> Str("POKEMON"), tcg_game |-> Str("POKEMON"),
                      subcategory |-> subcategory, condition_rank |-> Str("A"),
                      brand |-> brand, model_number |-> Str("EOS R5"),
                      card_number |-> Str("025/100"), set_code |-> Str("SV1"),
                      set |-> Str("Scarlet"), rarity |-> Str("RR"),
                      language |-> Str("English"), character_name |-> Str("Miku")]] :
        niche \in {"CAMERA_GEAR", "COLLECTION_FIGURES", "FURNITURE", "LUXURY_ITEM",
                   "STATIONARY", "TCG", "VIDEOGAME", "WATCH"},
        subcategory \in {Undefined, Str("BAG"), Str("FOUNTAIN_PEN"), Str("PEN"),
                         Str("SCALE_FIGURE"), Str("WALLET")},
        brand \in {Str("Bandai"), Str("Sony")}}

InitRow ==
    /\ lin \in ListingInputs
    /\ rout = NoReturn
    /\ call = NoCall
    /\ result = NoResult
    /\ findCalls = 0
    /\ priceCalls = 0
    /\ raised = NoError
    /\ escaped = FALSE
    /\ pin = [averagePrice |-> 0, shippingCost |-> Num(0), margin |-> Num(0)]
    /\ pout = NoPricing
    /\ cin = <<>>
    /\ cout = NoReturn
    /\ modal = NoModal
    /\ event = NoEvent

\* listingToEBayRow(listing), with the default margin
ListingToEBayRow ==
    /\ rout' = [fn |-> "listingToEBayRow",
                returned |-> listingToEBayRow(lin, UndefinedNumber)]
    /\ UNCHANGED <<lin, exportVars, pricingVars, cin, cout, modal, event>>

\* listingToShopifyRow(listing), with the default margin
ListingToShopifyRow ==
    /\ rout' = [fn |-> "listingToShopifyRow",
                returned |-> listingToShopifyRow(lin, UndefinedNumber)]
    /\ UNCHANGED <<lin, exportVars, pricingVars, cin, cout, modal, event>>

\* mapToEBayCondition(attributes.condition_rank, listing.niche_type)
MapToEBayCondition ==
    /\ rout' = [fn |-> "mapToEBayCondition",
                returned |-> mapToEBayCondition(lin.attributes.condition_rank,
                                                lin.niche_type)]
    /\ UNCHANGED <<lin, exportVars, pricingVars, cin, cout, modal, event>>

\* the category selection of listingToEBayRow: getTCGCategory, getLuxuryItemCategory,
\* getVideogameCategory or getStationaryCategory by niche, else the niche's entry
ResolveCategory ==
    /\ rout' = [fn |-> "ebayCategory", returned |-> EBayCategoryOf(lin)]
    /\ UNCHANGED <<lin, exportVars, pricingVars, cin, cout, modal, event>>

NextRow ==
    \/ ListingToEBayRow
    \/ ListingToShopifyRow
    \/ MapToEBayCondition
    \/ ResolveCategory

SpecRow == InitRow /\ [][NextRow]_vars

(***************************************************************************)
(* The export dialogs: ExportModal (platform, then margin) and MarkupDialog *)
(* (margin only).  The parent owns isOpen; the dialog owns its state and   *)
(* reports through onConfirm, onCancel and alert.                          *)
(***************************************************************************)
\* what the margin input can hold: the initial '25', the empty string, numerals in
\* and out of the range, with a sign or a fraction, and text that is no numeral
MarginEntries == {"", "-5", "0", "12.5", "12abc", "25", "500", "500.5", "600", "abc"}

\* the number of decimal digits of s from position i on
RECURSIVE DigitRun(_, _)
DigitRun(s, i) ==
    IF i <= Len(s) /\ includes("0123456789", CharAt(s, i)) THEN 1 + DigitRun(s, i + 1)
    ELSE 0

\* the number a string of decimal digits writes; 0 for the empty string
RECURSIVE NatOf(_)
NatOf(s) ==
    IF s = "" THEN 0
    ELSE 10 * NatOf(SubSeq(s, 1, Len(s) - 1))
             + (CHOOSE d \in 0..9 : CharAt("0123456789", d + 1) = CharAt(s, Len(s)))

\* parseFloat(s): a sign, digits, a point and digits are read from the start of s
\* and what follows them is ignored; NaN when no digit is read (leading white
\* space, exponents and 'Infinity' are not among the entries)
parseFloat(s) ==
    LET from == IF s # "" /\ CharAt(s, 1) \in {"+", "-"} THEN 2 ELSE 1
        int == DigitRun(s, from)
        frac == IF from + int <= Len(s) /\ CharAt(s, from + int) = "."
                THEN DigitRun(s, from + int + 1)
                ELSE 0
        magnitude == Rat(NatOf(SubSeq(s, from, from + int - 1)) * Pow10(frac)
                             + NatOf(SubSeq(s, from + int + 1, from + int + frac)),
                         Pow10(frac))
    IN IF int + frac = 0 THEN NaN
       ELSE IF CharAt(s, 1) = "-" THEN JNeg(magnitude)
       ELSE magnitude

\* parseFloat(desiredMargin) || 0
marginPercent(desiredMargin) ==
    IF IsNaN(parseFloat(desiredMargin)) \/ parseFloat(desiredMargin) = Num(0) THEN Num(0)
    ELSE parseFloat(desiredMargin)

\* handleExportConfirm without its range check
handleExportConfirm_unchecked(m) ==
    IF ~Truthy(m.selectedPlatform) THEN NoEvent
    ELSE [NoEvent EXCEPT
              !.onConfirm = <<m.selectedPlatform, marginPercent(m.desiredMargin)>>]

\* handleExportConfirm of ExportModal, on the state m of the render it closes over
handleExportConfirm(m) ==
    IF ~Truthy(m.selectedPlatform) THEN NoEvent
    ELSE IF JLess(marginPercent(m.desiredMargin), Num(0))
              \/ JLess(Num(500), marginPercent(m.desiredMargin))
    THEN [NoEvent EXCEPT !.alert = "Please enter a margin between 0% and 500%"]
    ELSE [NoEvent EXCEPT
              !.onConfirm = <<m.selectedPlatform, marginPercent(m.desiredMargin)>>]

\* handleConfirm of MarkupDialog
handleConfirm(m) ==
    IF JLess(marginPercent(m.desiredMargin), Num(0))
          \/ JLess(Num(500), marginPercent(m.desiredMargin))
    THEN [NoEvent EXCEPT !.alert = "Please enter a margin between 0% and 500%"]
    ELSE [NoEvent EXCEPT !.onConfirm = <<marginPercent(m.desiredMargin)>>]

\* both dialogs are mounted closed, with their useState initial values
InitModal ==
    /\ modal \in {[component |-> "ExportModal", isOpen |-> FALSE, step |-> 1,
                   selectedPlatform |-> Null, desiredMargin |-> "25"],
                  [component |-> "MarkupDialog", isOpen |-> FALSE,
                   desiredMargin |-> "25"]}
    /\ event = NoEvent
    /\ call = NoCall
    /\ result = NoResult
    /\ findCalls = 0
    /\ priceCalls = 0
    /\ raised = NoError
    /\ escaped = FALSE
    /\ pin = [averagePrice |-> 0, shippingCost |-> Num(0), margin |-> Num(0)]
    /\ pout = NoPricing
    /\ cin = <<>>
    /\ cout = NoReturn
    /\ lin = NoListing
    /\ rout = NoReturn

\* the parent sets isOpen; ExportModal's effect on isOpen resets its state before the
\* next event is handled, MarkupDialog keeps the margin it held
Open ==
    /\ ~modal.isOpen
    /\ modal' = IF modal.component = "ExportModal"
                THEN [modal EXCEPT !.isOpen = TRUE, !.step = 1,
                                   !.selectedPlatform = Null, !.desiredMargin = "25"]
                ELSE [modal EXCEPT !.isOpen = TRUE]
    /\ event' = [NoEvent EXCEPT !.event = "open"]
    /\ UNCHANGED <<exportVars, pricingVars, cin, cout, lin, rout>>

\* the parent clears isOpen: the dialog renders nothing and keeps its state
Close ==
    /\ modal.isOpen
    /\ modal' = [modal EXCEPT !.isOpen = FALSE]
    /\ event' = [NoEvent EXCEPT !.event = "close"]
    /\ UNCHANGED <<exportVars, pricingVars, cin, cout, lin, rout>>

\* handlePlatformSelect, from a platform button of step 1
HandlePlatformSelect ==
    /\ modal.component = "ExportModal" /\ modal.isOpen /\ modal.step = 1
    /\ \E platform \in {"ebay", "shopify"} :
          modal' = [modal EXCEPT !.step = 2, !.selectedPlatform = Str(platform)]
    /\ event' = [NoEvent EXCEPT !.event = "click platform"]
    /\ UNCHANGED <<exportVars, pricingVars, cin, cout, lin, rout>>

\* handleBackToStep1, from the back button of step 2
HandleBackToStep1 ==
    /\ modal.component = "ExportModal" /\ modal.isOpen /\ modal.step = 2
    /\ modal' = [modal EXCEPT !.step = 1]
    /\ event' = [NoEvent EXCEPT !.event = "click back"]
    /\ UNCHANGED <<exportVars, pricingVars, cin, cout, lin, rout>>

\* onChange of the margin input: setDesiredMargin(e.target.value)
ChangeMargin ==
    /\ modal.isOpen
    /\ modal.component = "ExportModal" => modal.step = 2
    /\ \E entry \in MarginEntries : modal' = [modal EXCEPT !.desiredMargin = entry]
    /\ event' = [NoEvent EXCEPT !.event = "change"]
    /\ UNCHANGED <<exportVars, pricingVars, cin, cout, lin, rout>>

\* handleKeyDown with Escape: step 2 of ExportModal goes back, otherwise onCancel()
KeyEscape ==
    /\ modal.isOpen
    /\ IF modal.component = "ExportModal" /\ modal.step = 2
       THEN /\ modal' = [modal EXCEPT !.step = 1]
            /\ event' = [NoEvent EXCEPT !.event = "keydown Escape"]
       ELSE /\ modal' = modal
            /\ event' = [NoEvent EXCEPT !.event = "keydown Escape", !.onCancel = TRUE]
    /\ UNCHANGED <<exportVars, pricingVars, cin, cout, lin, rout>>

\* handleKeyDown with Enter: handleExportConfirm at step 2 of ExportModal and
\* nothing at step 1; handleConfirm in MarkupDialog
KeyEnter ==
    /\ modal.isOpen
    /\ event' = [(IF modal.component = "MarkupDialog" THEN handleConfirm(modal)
                  ELSE IF modal.step = 2 THEN handleExportConfirm(modal)
                  ELSE NoEvent) EXCEPT !.event = "keydown Enter"]
    /\ UNCHANGED <<modal, exportVars, pricingVars, cin, cout, lin, rout>>

\* onClick of the Export button: in ExportModal it is rendered at step 2 only
ClickExport ==
    /\ modal.isOpen
    /\ modal.component = "ExportModal" => modal.step = 2
    /\ event' = [(IF modal.component = "MarkupDialog" THEN handleConfirm(modal)
                  ELSE handleExportConfirm(modal)) EXCEPT !.event = "click Export"]
    /\ UNCHANGED <<modal, exportVars, pricingVars, cin, cout, lin, rout>>

\* onClick of the backdrop, the close button or the Cancel button: onCancel()
ClickCancel ==
    /\ modal.isOpen
    /\ event' = [NoEvent EXCEPT !.event = "click Cancel", !.onCancel = TRUE]
    /\ UNCHANGED <<modal, exportVars, pricingVars, cin, cout, lin, rout>>

NextModal ==
    \/ Open
    \/ Close
    \/ HandlePlatformSelect
    \/ HandleBackToStep1
    \/ ChangeMargin
    \/ KeyEscape
    \/ KeyEnter
    \/ ClickExport
    \/ ClickCancel

SpecModal == InitModal /\ [][NextModal]_vars

(***************************************************************************)
(* Properties of the pricing engine (checked under SpecPricing)            *)
(***************************************************************************)
\* 0 <= m <= 500
InMarginRange(m) == JLeq(Num(0), m) /\ JLeq(m, Num(500))

PinCostUSD == JMul(Num(pin.averagePrice), Rat(67, 10000))

EBayPricers == {"ExportModal.calculateEBayPricing", "MarkupDialog.calculatePricing",
                "calculateSalePriceWithMargin"}

ShopifyPricers == {"ExportModal.calculateShopifyPricing", "calculateShopifyPrice"}

Previews == {"ExportModal.calculateEBayPricing", "ExportModal.calculateShopifyPricing",
             "MarkupDialog.calculatePricing"}

\* the unrounded sale price the last pricing computation produced
PoutSalePrice == IF pout.fn \in Previews THEN pout.amounts.salePrice ELSE pout.salePrice

\* the shipping cost in the cost base of the last pricing computation
PoutShipping == IF pout.fn \in EBayPricers THEN pin.shippingCost ELSE Num(0)

\* actualMargin as the fee schedule defines it: the percentage fees and the flat
\* fee are taken off the sale price, the rest is profit on the cost
RealizedMargin(salePrice, cost, shippingCost, totalPercentFees, flat) ==
    LET fees == JAdd(JMul(salePrice, totalPercentFees), flat)
        netProfit == JSub(JSub(JSub(salePrice, cost), shippingCost), fees)
    IN JMul(JDiv(netProfit, cost), Num(100))

WithinTenth(x, y) == JLeq(JAbs(JSub(x, y)), Rat(1, 10))

\* C1: for every cost > 0, shipping cost >= 0 and margin in [0, 500], the margin
\* realized by the computed sale price under the eBay schedule (13.25% + 2.35% +
\* 1.65% + $0.30) and under the Shopify schedule (2.9% + $0.30) is within 0.1 of
\* the requested margin; so is the actualMargin the previews compute.
PricingRoundTrip ==
    (pout.fn # "none" /\ pin.averagePrice > 0 /\ InMarginRange(pin.margin)) =>
        /\ pout.fn \in EBayPricers =>
              WithinTenth(RealizedMargin(PoutSalePrice, PinCostUSD, pin.shippingCost,
                                         Rat(1725, 10000), Rat(30, 100)),
                          pin.margin)
        /\ pout.fn \in ShopifyPricers =>
              WithinTenth(RealizedMargin(PoutSalePrice, PinCostUSD, Num(0),
                                         Rat(29, 1000), Rat(30, 100)),
                          pin.margin)
        /\ pout.fn \in Previews => WithinTenth(pout.amounts.actualMargin, pin.margin)

PricingRoundTripWitness ==
    /\ pout.fn = "ExportModal.calculateEBayPricing"
    /\ pin.averagePrice = 10000
    /\ pin.shippingCost = Num(30)
    /\ pin.margin = Num(25)
    /\ pout.pricing.actualMargin = "25.0"

\* the sale price the pricer of the last computation gives for another margin
PriceAtMargin(m) ==
    IF pout.fn = "calculateSalePriceWithMargin"
    THEN calculateSalePriceWithMargin(JMul(Num(pin.averagePrice), JPY_TO_USD_RATE), m,
                                      pin.shippingCost)
    ELSE calculateShopifyPrice(Num(pin.averagePrice), m)

ExportPricers == {"calculateSalePriceWithMargin", "calculateShopifyPrice"}

\* C2 as stated: for every cost >= 0 and every m1 < m2 in [0, 500], the sale price
\* for m2 is strictly greater than the sale price for m1.
MonotoneForEveryCost ==
    (pout.fn \in ExportPricers /\ InMarginRange(pin.margin)) =>
        \A m2 \in MarginInputs :
            (InMarginRange(m2) /\ JLess(pin.margin, m2)) =>
                JLess(pout.salePrice, PriceAtMargin(m2))

\* C2 amended: for every cost > 0 and every m1 < m2 in [0, 500], the sale price for
\* m2 is strictly greater than the sale price for m1; for cost = 0 the two sale
\* prices are equal.
MonotoneForPositiveCost ==
    (pout.fn \in ExportPricers /\ InMarginRange(pin.margin)) =>
        \A m2 \in MarginInputs :
            (InMarginRange(m2) /\ JLess(pin.margin, m2)) =>
                /\ pin.averagePrice > 0 => JLess(pout.salePrice, PriceAtMargin(m2))
                /\ pin.averagePrice = 0 => pout.salePrice = PriceAtMargin(m2)

MonotoneWitness ==
    /\ pout.fn = "calculateShopifyPrice"
    /\ pin.averagePrice = 2500
    /\ pin.margin = Num(0)
    /\ Num(500) \in MarginInputs
    /\ JLess(pout.salePrice, PriceAtMargin(Num(500)))

\* C5: for the same price, shipping cost and margin, the sale price a preview shows
\* equals the price the export writes, and the previews use the export's fee
\* constants and exchange rate.
PreviewEqualsExport ==
    /\ pout.fn \in {"ExportModal.calculateEBayPricing", "MarkupDialog.calculatePricing"} =>
          pout.pricing.salePrice =
              toFixed(calculateSalePriceWithMargin(
                          JMul(Num(pin.averagePrice), JPY_TO_USD_RATE), pin.margin,
                          pin.shippingCost), 2)
    /\ pout.fn = "ExportModal.calculateShopifyPricing" =>
          pout.pricing.salePrice =
              toFixed(calculateShopifyPrice(Num(pin.averagePrice), pin.margin), 2)
    /\ pout.fn \in Previews =>
          /\ ExportModal_EBAY_FINAL_VALUE_FEE = EBAY_FINAL_VALUE_FEE
          /\ ExportModal_EBAY_PAYMENT_PROCESSING_PERCENT = EBAY_PAYMENT_PROCESSING_PERCENT
          /\ ExportModal_EBAY_PAYMENT_PROCESSING_FIXED = EBAY_PAYMENT_PROCESSING_FIXED
          /\ ExportModal_EBAY_INTERNATIONAL_FEE = EBAY_INTERNATIONAL_FEE
          /\ ExportModal_SHOPIFY_PAYMENT_FEE_PERCENT = SHOPIFY_PAYMENT_FEE_PERCENT
          /\ ExportModal_SHOPIFY_PAYMENT_FEE_FIXED = SHOPIFY_PAYMENT_FEE_FIXED
          /\ ExportModal_JPY_TO_USD_RATE = JPY_TO_USD_RATE
          /\ MarkupDialog_EBAY_FINAL_VALUE_FEE = EBAY_FINAL_VALUE_FEE
          /\ MarkupDialog_EBAY_PAYMENT_PROCESSING_PERCENT = EBAY_PAYMENT_PROCESSING_PERCENT
          /\ MarkupDialog_EBAY_PAYMENT_PROCESSING_FIXED = EBAY_PAYMENT_PROCESSING_FIXED
          /\ MarkupDialog_EBAY_INTERNATIONAL_FEE = EBAY_INTERNATIONAL_FEE

PreviewEqualsExportWitness ==
    /\ pout.fn = "ExportModal.calculateShopifyPricing"
    /\ pin.averagePrice = 5000
    /\ pin.margin = Rat(25, 2)
    /\ pout.pricing.salePrice =
           toFixed(calculateShopifyPrice(Num(5000), Rat(25, 2)), 2)

(***************************************************************************)
(* Properties of the export server actions (checked under Spec)            *)
(***************************************************************************)
Called == call.fn # "none"

\* the margin the call priced with: the argument, or the default 25
EffectiveMargin == DefaultArg(call.netMarginPercent, Num(25))

\* the documents the lookup of the last call matched, in the order it returned them
Fetched == Find(call.listingIds.items)

Succeeded == Called /\ ~escaped /\ result.success

\* A standard CSV reader (RFC 4180): fields are separated by commas and records by
\* newlines; a field that starts with a quote runs to its closing quote, and two
\* quotes inside it stand for one. A position lies inside a quoted field exactly
\* when an odd number of quote characters precedes it.

\* the scans of two adjacent ranges, joined: the right range starts inside a quoted
\* field exactly when the left one flips the state
JoinScans(l, r) ==
    <<l[1] + r[1],
      l[2] \o (IF l[1] % 2 = 0 THEN r[2] ELSE r[3]),
      l[3] \o (IF l[1] % 2 = 0 THEN r[3] ELSE r[2])>>

\* the scan of text[lo..hi]: the number of quote characters in it, the positions of
\* its commas and newlines that separate fields when the range starts outside a
\* quoted field, and those that do when it starts inside one
RECURSIVE ScanRange(_, _, _)
ScanRange(text, lo, hi) ==
    IF lo > hi THEN <<0, <<>>, <<>>>>
    ELSE IF lo = hi
    THEN IF CharAt(text, lo) = "\"" THEN <<1, <<>>, <<>>>>
         ELSE IF CharAt(text, lo) \in {"\n", ","} THEN <<0, <<lo>>, <<>>>>
         ELSE <<0, <<>>, <<>>>>
    ELSE JoinScans(ScanRange(text, lo, (lo + hi) \div 2),
                   ScanRange(text, (lo + hi) \div 2 + 1, hi))

\* the positions that end a field: the separators outside quotes, then the end
Separators(text) == ScanRange(text, 1, Len(text))[2] \o <<Len(text) + 1>>

\* s with every pair of quotes replaced by one quote
Unescape(s) ==
    Concat([k \in 1..Len(s) |->
              IF /\ CharAt(s, k) = "\""
                 /\ Cardinality({j \in 1..(k - 1) : CharAt(s, j) = "\""}) % 2 = 1
              THEN ""
              ELSE CharAt(s, k)])

\* the value of a field given as written: without its enclosing quotes, if any
ReadField(raw) ==
    IF raw # "" /\ CharAt(raw, 1) = "\""
    THEN Unescape(SubSeq(raw, 2, Len(raw) - 1))
    ELSE raw

\* the fields from ends[first] to ends[last], each running from the position after
\* the separator before it
ReadRecord(text, ends, first, last) ==
    [f \in 1..(last - first + 1) |->
        ReadField(SubSeq(text,
                         IF first + f - 1 = 1 THEN 1 ELSE ends[first + f - 2] + 1,
                         ends[first + f - 1] - 1))]

\* the records of a csv text, each a sequence of field values
ParseCsv(text) ==
    LET ends == Separators(text)
        breaks == SelectSeq([k \in 1..Len(ends) |-> k],
                            LAMBDA k : \/ ends[k] > Len(text)
                                       \/ CharAt(text, ends[k]) = "\n")
    IN [r \in 1..Len(breaks) |->
           ReadRecord(text, ends, IF r = 1 THEN 1 ELSE breaks[r - 1] + 1, breaks[r])]

\* position of header h in the header row
Column(headers, h) == CHOOSE i \in 1..Len(headers) : headers[i] = h

\* the parsed rows of the last call's csv: header row first
CsvRows == ParseCsv(result.csv)

\* the cell under header h in the primary row of the listing with the given id
\* (eBay: one row per listing, in lookup order)
EBayCell(id, h) ==
    LET i == CHOOSE k \in 1..Len(Fetched) : Fetched[k]._id = id
    IN CsvRows[i + 1][Column(CsvRows[1], h)]

\* the primary rows of a Shopify csv: the rows with Image Position 1
ShopifyPrimaryRows ==
    SelectSeq(Tail(CsvRows),
              LAMBDA line : line[Column(CsvRows[1], "Image Position")] = "1")

ShopifyCell(id, h) ==
    LET i == CHOOSE k \in 1..Len(Fetched) : Fetched[k]._id = id
    IN ShopifyPrimaryRows[i][Column(CsvRows[1], h)]

\* the listing of the scenarios: 10,000 yen, niche TCG (shipping $30)
ScenarioId == "665f000000000000001a2b3c"

ScenarioExported(fn) ==
    /\ Succeeded
    /\ call.fn = fn
    /\ ScenarioId \in call.listingIds.items
    /\ EffectiveMargin = Num(25)

\* C3 as stated: the 10,000 yen listing exported to eBay with margin 25% gets
\* *StartPrice 137.89.
EBayScenarioPriceAsStated ==
    ScenarioExported("exportToEBayCSV") => EBayCell(ScenarioId, "*StartPrice") = "137.89"

\* C3 amended: the 10,000 yen listing exported to eBay with margin 25% gets
\* *StartPrice 137.82 (114.05 / 0.8275 = 137.8247...).
EBayScenarioPrice ==
    ScenarioExported("exportToEBayCSV") => EBayCell(ScenarioId, "*StartPrice") = "137.82"

EBayScenarioWitness ==
    /\ ScenarioExported("exportToEBayCSV")
    /\ call.netMarginPercent = Num(25)
    /\ call.listingIds.items = {ScenarioId}
    /\ CsvRows[2][Column(EBayHeaders, "*StartPrice")] = "137.82"

\* C4: the 10,000 yen listing exported to Shopify with margin 25% gets Variant
\* Price 86.56 (no shipping cost in the cost base).
ShopifyScenarioPrice ==
    ScenarioExported("exportToShopifyCSV") =>
        ShopifyCell(ScenarioId, "Variant Price") = "86.56"

ShopifyScenarioWitness ==
    /\ ScenarioExported("exportToShopifyCSV")
    /\ call.netMarginPercent = Num(25)
    /\ call.listingIds.items = {ScenarioId}
    /\ CsvRows[2][Column(ShopifyHeaders, "Variant Price")] = "86.56"

\* the sale price the last call computed for a fetched listing
PriceOf(listing) ==
    IF call.fn = "exportToEBayCSV"
    THEN calculateSalePriceWithMargin(
             JMul(ToNumber(Has(listing, "price_jpy"), listing.price_jpy), JPY_TO_USD_RATE),
             EffectiveMargin, getShippingCost(listing.niche_type))
    ELSE calculateShopifyPrice(ToNumber(Has(listing, "price_jpy"), listing.price_jpy),
                               EffectiveMargin)

\* C6: no Infinity, NaN or negative price is written into an export row without
\* being flagged: every price of a successful export is a finite amount >= 0.
NoUnflaggedBadPrice ==
    Succeeded =>
        \A i \in 1..Len(Fetched) :
            /\ IsFinite(PriceOf(Fetched[i]))
            /\ JLeq(Num(0), PriceOf(Fetched[i]))

\* C7: an export call whose margin lies outside [0, 500] is rejected before any
\* sale price is computed, and produces no CSV.
MarginRangeRejected ==
    (Called /\ ~InMarginRange(EffectiveMargin)) =>
        /\ ~escaped
        /\ result.success = FALSE
        /\ "csv" \notin DOMAIN result
        /\ priceCalls = 0

\* C8: every result is {success: true} with csv and filename and no error, or
\* {success: false} with error and neither csv nor filename.
ResultShape ==
    Called =>
        /\ ~escaped
        /\ "success" \in DOMAIN result
        /\ \/ result.success /\ DOMAIN result = {"csv", "filename", "success"}
           \/ ~result.success /\ DOMAIN result = {"error", "success"}

ResultShapeWitness ==
    /\ Called
    /\ call.db = "queryFails"
    /\ call.listingIds.present
    /\ call.listingIds.items # {}
    /\ DOMAIN result = {"error", "success"}

GenericFailure == [success |-> FALSE, error |-> "Failed to export listings"]

\* the lookup was reached and failed, or a fetched document lacks title or image_urls
CollaboratorFailed ==
    /\ call.listingIds.present
    /\ call.listingIds.items # {}
    /\ \/ call.db # "ok"
       \/ \E i \in 1..Len(Fetched) : Fetched[i].missing \cap {"image_urls", "title"} # {}

\* C9: no exception leaves an export call; when the database connection or query
\* throws, or a fetched listing lacks title or image_urls, the call returns
\* {success: false, error: 'Failed to export listings'} and the exception text is
\* not in the result.
NoUncaughtFailure ==
    Called =>
        /\ ~escaped
        /\ CollaboratorFailed => (raised # NoError /\ result = GenericFailure)
        /\ raised # NoError => (result = GenericFailure /\ result.error # raised)

NoUncaughtFailureWitness ==
    /\ Called
    /\ call.db = "ok"
    /\ raised = "TypeError: Cannot read properties of undefined (reading 'substring')"
    /\ result = GenericFailure
    /\ priceCalls = 2

\* C10: an export call with a missing or empty id list returns {success: false,
\* error: 'No listings selected for export'} without a lookup or a row mapping.
EmptySelectionRejected ==
    (Called /\ (~call.listingIds.present \/ call.listingIds.items = {})) =>
        /\ ~escaped
        /\ result = [success |-> FALSE, error |-> "No listings selected for export"]
        /\ findCalls = 0
        /\ priceCalls = 0

EmptySelectionWitness ==
    /\ call.fn = "exportToShopifyCSV"
    /\ call.listingIds.present
    /\ call.listingIds.items = {}
    /\ call.db = "ok"
    /\ result.error = "No listings selected for export"
    /\ findCalls = 0

\* the lookup of the last call was reached with ids none of which is stored
NothingMatched ==
    /\ Called
    /\ call.db = "ok"
    /\ call.listingIds.present
    /\ call.listingIds.items # {}
    /\ call.listingIds.items \cap StoredIds = {}

\* C11: when the lookup matches none of the requested ids, the export returns
\* success = false with an error message that is neither the empty-selection
\* message nor the generic failure message, and no csv.
NotFoundIsDistinct ==
    NothingMatched =>
        /\ ~escaped
        /\ result.success = FALSE
        /\ "error" \in DOMAIN result
        /\ result.error \notin {"Failed to export listings", "No listings selected for export"}
        /\ "csv" \notin DOMAIN result

NotFoundWitness ==
    /\ NothingMatched
    /\ call.fn = "exportToEBayCSV"
    /\ call.listingIds.items = {UnknownId}
    /\ result.error = "No listings found with the provided IDs"
    /\ findCalls = 1
    /\ priceCalls = 0

\* the stored documents whose id was requested by the last call
Requested == {i \in 1..Len(Collection) : Collection[i]._id \in call.listingIds.items}

\* the requested ids are partly stored and partly not, and the stored documents
\* requested have every property the row mapping reads
PartialMatch ==
    /\ Called
    /\ call.db = "ok"
    /\ call.listingIds.present
    /\ Requested # {}
    /\ call.listingIds.items \ StoredIds # {}
    /\ \A i \in Requested : Collection[i].missing = {}

\* the primary rows of the last call's csv: every row after the header for eBay,
\* the rows with Image Position 1 for Shopify
PrimaryRows == IF call.fn = "exportToEBayCSV" THEN Tail(CsvRows) ELSE ShopifyPrimaryRows

TitleHeader == IF call.fn = "exportToEBayCSV" THEN "*Title" ELSE "Title"

\* C12: when the requested ids are partly stored and partly not, the export
\* succeeds and its csv has exactly one primary row for each listing found and no
\* other primary row.
PartialMatchExported ==
    PartialMatch =>
        /\ ~escaped
        /\ result.success
        /\ Len(PrimaryRows) = Cardinality(Requested)
        /\ {PrimaryRows[k][Column(CsvRows[1], TitleHeader)] : k \in 1..Len(PrimaryRows)}
               = {Collection[i].title : i \in Requested}

PartialMatchWitness ==
    /\ PartialMatch
    /\ call.fn = "exportToShopifyCSV"
    /\ call.listingIds.items =
           {"665f000000000000001a2b3c", "665f000000000000004d5e6f", UnknownId}
    /\ result.success
    /\ Len(ShopifyPrimaryRows) = 2
    /\ Len(CsvRows) = 5

(***************************************************************************)
(* Properties of objectToCSVLine (checked under SpecCsv)                   *)
(***************************************************************************)
Serialized == cout.fn = "objectToCSVLine"

\* the value the row holds under header h, Absent when it has no such key
Cell(h) == IF h \in DOMAIN cin THEN cin[h] ELSE Absent

IsSet(v) == v[1] = "string"

Special(v) == \E i \in 1..Len(v) : CharAt(v, i) \in {"\n", "\"", ","}

Commas(s) == {i \in 1..Len(s) : CharAt(s, i) = ","}

Quotes(s) == {i \in 1..Len(s) : CharAt(s, i) = "\""}

Largest(S) == CHOOSE i \in S : \A j \in S : j <= i

\* the text of the line before its last two commas: the first field, when the
\* other two fields hold no comma
FirstField(ln) ==
    SubSeq(ln, 1, Largest(Commas(ln) \ {Largest(Commas(ln))}) - 1)

\* f is v wrapped in double quotes with every double quote of v doubled
WrappedAndDoubled(f, v) ==
    /\ Len(f) = Len(v) + Cardinality(Quotes(v)) + 2
    /\ CharAt(f, 1) = "\""
    /\ CharAt(f, Len(f)) = "\""
    /\ Unescape(SubSeq(f, 2, Len(f) - 1)) = v

\* the brand and color cells hold no comma, quote or newline
PlainTail ==
    /\ Cell("C:Brand") \in {Absent, Undefined, Null, Str(""), Str("Unbranded")}
    /\ Cell("Color") \in {Absent, Str("Black")}

\* C13: objectToCSVLine emits a field wrapped in double quotes, every double quote
\* in it doubled, if and only if the value contains a comma, a double quote or a
\* newline; every other value is emitted unchanged, without quotes.
QuotingRule ==
    (Serialized /\ PlainTail) =>
        /\ Cardinality(Commas(cout.line)) >= 2
        /\ IF Special(Cell("*Title")[2])
           THEN WrappedAndDoubled(FirstField(cout.line), Cell("*Title")[2])
           ELSE FirstField(cout.line) = Cell("*Title")[2]

QuotingRuleWitness ==
    /\ Serialized
    /\ PlainTail
    /\ Cell("*Title") = Str("a\",")
    /\ Cell("C:Brand") = Str("Unbranded")
    /\ Cell("Color") = Str("Black")
    /\ cout.line = "\"a\"\",\",Unbranded,Black"

\* every header has a string value in the row
AllSet == \A i \in 1..Len(CsvHeaders) : IsSet(Cell(CsvHeaders[i]))

\* C14: a row whose values are built from ordinary characters, commas, double
\* quotes and newlines, serialized by objectToCSVLine and read back by a standard
\* CSV reader, yields the original values field for field.
CsvRoundTrip ==
    (Serialized /\ AllSet) =>
        ParseCsv(cout.line) = <<[i \in 1..Len(CsvHeaders) |-> Cell(CsvHeaders[i])[2]]>>

CsvRoundTripWitness ==
    /\ Serialized
    /\ Cell("*Title") = Str(",\"\n")
    /\ Cell("C:Brand") = Str("Louis \"LV\", Paris")
    /\ Cell("Color") = Str("a\nb")
    /\ ParseCsv(cout.line) = <<<<",\"\n", "Louis \"LV\", Paris", "a\nb">>>>

\* C15: a header that has no key in the row, or an undefined or null value,
\* serializes as the empty string, never as 'undefined' or 'null'; the serialized
\* row has exactly as many fields as there are headers, in header order.
UnsetSerializesEmpty ==
    Serialized =>
        /\ Len(ParseCsv(cout.line)) = 1
        /\ Len(ParseCsv(cout.line)[1]) = Len(CsvHeaders)
        /\ \A i \in 1..Len(CsvHeaders) :
              ParseCsv(cout.line)[1][i] =
                  IF IsSet(Cell(CsvHeaders[i])) THEN Cell(CsvHeaders[i])[2] ELSE ""

UnsetSerializesEmptyWitness ==
    /\ Serialized
    /\ Cell("*Title") = Str("a")
    /\ Cell("C:Brand") = Undefined
    /\ Cell("Color") = Absent
    /\ cout.line = "a,,"

(***************************************************************************)
(* Properties of the eBay row mapping (checked under SpecRow)              *)
(***************************************************************************)
RowMapped == rout.fn = "listingToEBayRow" /\ rout.returned.kind = "return"

\* the value the mapped row holds under header h, Absent when it has no such key
RowCell(h) ==
    IF h \in DOMAIN rout.returned.value THEN rout.returned.value[h] ELSE Absent

\* the row holds a non-empty string under header h
RowHas(h) == RowCell(h)[1] = "string" /\ RowCell(h)[2] # ""

\* t is the first n characters of s
IsPrefix(t, s, n) == Len(t) = n /\ \A i \in 1..n : CharAt(t, i) = CharAt(s, i)

\* C16: the *Title of a listing whose title has at most 80 characters is the title
\* unchanged; a title of 81 or more characters is cut to exactly its first 80
\* characters; an over-length title never causes an error.
TitleTruncation ==
    rout.fn = "listingToEBayRow" =>
        /\ rout.returned.kind = "return"
        /\ RowCell("*Title")[1] = "string"
        /\ IF Len(lin.title) <= 80
           THEN RowCell("*Title")[2] = lin.title
           ELSE IsPrefix(RowCell("*Title")[2], lin.title, 80)

TitleTruncationWitness ==
    /\ RowMapped
    /\ Len(lin.title) = 81
    /\ RowCell("*Title") = Str(Title80)

Ranks == {"A", "B", "C", "D", "JUNK", "N", "S"}

\* the rank of the listing is absent or is not one of the seven ranks
UnknownRank ==
    lin.attributes.condition_rank[1] # "string"
        \/ lin.attributes.condition_rank[2] \notin Ranks

\* C17: for every niche, a known one or not, and every condition rank that is
\* absent or is not one of N, S, A, B, C, D, JUNK, mapToEBayCondition returns
\* '3000'.
ConditionFallback ==
    (rout.fn = "mapToEBayCondition" /\ UnknownRank) => rout.returned = Str("3000")

StandardCodes ==
    ("N" :> "1000") @@ ("S" :> "1500") @@ ("A" :> "3000") @@ ("B" :> "4000")
        @@ ("C" :> "5000") @@ ("D" :> "6000") @@ ("JUNK" :> "7000")

\* C18: for every condition rank, known or not, the ConditionID of a LUXURY_ITEM
\* row is one of 1000, 1500, 1750, 3000; that of a VIDEOGAME, STATIONARY or
\* COLLECTION_FIGURES row is one of 1000, 1500, 3000, 7000; TCG, WATCH and
\* CAMERA_GEAR rows map N, S, A, B, C, D, JUNK to 1000, 1500, 3000, 4000, 5000,
\* 6000, 7000.
LegalConditionCodes ==
    RowMapped =>
        /\ lin.niche_type = "LUXURY_ITEM" =>
              RowCell("ConditionID") \in {Str("1000"), Str("1500"), Str("1750"), Str("3000")}
        /\ lin.niche_type \in {"COLLECTION_FIGURES", "STATIONARY", "VIDEOGAME"} =>
              RowCell("ConditionID") \in {Str("1000"), Str("1500"), Str("3000"), Str("7000")}
        /\ (lin.niche_type \in {"CAMERA_GEAR", "TCG", "WATCH"} /\ ~UnknownRank) =>
              RowCell("ConditionID") = Str(StandardCodes[lin.attributes.condition_rank[2]])

\* the override table of each niche that has one, and the niche's default category
Overrides ==
    [TCG |-> ("MAGIC" :> "38292") @@ ("ONE_PIECE" :> "183454") @@ ("POKEMON" :> "183454")
                 @@ ("YUGIOH" :> "183444"),
     LUXURY_ITEM |-> ("ACCESSORY" :> "155183") @@ ("BAG" :> "169291")
                         @@ ("WALLET" :> "45258"),
     VIDEOGAME |-> ("HYBRID_CONSOLE" :> "139971") @@ ("PORTABLE_CONSOLE" :> "171831")
                       @@ ("STANDING_CONSOLE" :> "139971"),
     STATIONARY |-> ("BALLPOINT_PEN" :> "61782") @@ ("FOUNTAIN_PEN" :> "61778")
                        @@ ("INK" :> "49004") @@ ("MARKER" :> "61781")
                        @@ ("MECHANICAL_PENCIL" :> "61780") @@ ("NOTEBOOK" :> "159903")
                        @@ ("PEN" :> "61778") @@ ("PENCIL" :> "61779")
                        @@ ("WRITING_UTENSIL" :> "61778")]

NicheDefault ==
    [TCG |-> "183454", LUXURY_ITEM |-> "169291", VIDEOGAME |-> "139971",
     STATIONARY |-> "61778"]

\* game for a TCG listing, subcategory for the others
CategoryKey ==
    IF lin.niche_type = "TCG" THEN lin.attributes.game ELSE lin.attributes.subcategory

ExpectedCategory ==
    IF CategoryKey[1] = "string" /\ CategoryKey[2] \in DOMAIN Overrides[lin.niche_type]
    THEN Str(Overrides[lin.niche_type][CategoryKey[2]])
    ELSE Str(NicheDefault[lin.niche_type])

\* C19: for TCG (keyed by game), LUXURY_ITEM, VIDEOGAME and STATIONARY (keyed by
\* subcategory), a recognized key yields that key's category id from the override
\* table and an absent or unrecognized key yields the niche default; the
\* resolution returns a category id for every input.
CategoryFallback ==
    /\ (rout.fn = "ebayCategory"
            /\ lin.niche_type \in {"LUXURY_ITEM", "STATIONARY", "TCG", "VIDEOGAME"}) =>
          rout.returned = ExpectedCategory
    /\ (RowMapped /\ lin.niche_type \in {"LUXURY_ITEM", "STATIONARY", "TCG", "VIDEOGAME"}) =>
          RowCell("*Category") = ExpectedCategory

\* C20: an eBay row of a LUXURY_ITEM with subcategory WALLET or ACCESSORY has Color
\* set and C:Exterior Color and C:Exterior Material unset; a row with subcategory
\* BAG, or an absent or unknown subcategory, has C:Exterior Color and C:Exterior
\* Material set and Color unset; no row has both Color and C:Exterior Color set.
LuxuryFieldSplit ==
    RowMapped =>
        /\ lin.niche_type = "LUXURY_ITEM" =>
              IF lin.attributes.subcategory \in {Str("ACCESSORY"), Str("WALLET")}
              THEN /\ RowHas("Color")
                   /\ ~RowHas("C:Exterior Color")
                   /\ ~RowHas("C:Exterior Material")
              ELSE /\ RowHas("C:Exterior Color")
                   /\ RowHas("C:Exterior Material")
                   /\ ~RowHas("Color")
        /\ ~(RowHas("Color") /\ RowHas("C:Exterior Color"))

LuxuryFieldSplitWitness ==
    /\ RowMapped
    /\ lin.niche_type = "LUXURY_ITEM"
    /\ lin.attributes.subcategory = Str("WALLET")
    /\ lin.title = Title80
    /\ RowCell("Color") = Str("Gold")
    /\ RowCell("C:Exterior Color") = Absent

(***************************************************************************)
(* Properties of the Shopify rows (checked under Spec)                     *)
(***************************************************************************)
ShopifyExported == Succeeded /\ call.fn = "exportToShopifyCSV"

\* rows a listing with n images takes in the file: min(n, 10), and 1 when n <= 1
BlockLen(listing) ==
    IF Len(listing.image_urls) <= 1 THEN 1
    ELSE IF Len(listing.image_urls) < 10 THEN Len(listing.image_urls)
    ELSE 10

\* rows of the file before the block of the i-th fetched listing: the header and
\* the blocks of the listings fetched before it
RECURSIVE RowsBefore(_)
RowsBefore(i) == IF i = 1 THEN 1 ELSE RowsBefore(i - 1) + BlockLen(Fetched[i - 1])

\* the cell of a row under header h of the Shopify file
Under(row, h) == row[Column(ShopifyHeaders, h)]

\* rows[first] is the primary row of the listing and the rows after it are the
\* continuation rows of its images 2 .. min(n, 10)
ImageBlock(rows, listing, first) ==
    /\ Under(rows[first], "Image Position") = "1"
    /\ Under(rows[first], "Title") = listing.title
    /\ \A k \in 2..BlockLen(listing) :
          /\ Under(rows[first + k - 1], "Handle") = Under(rows[first], "Handle")
          /\ Under(rows[first + k - 1], "Image Src") = listing.image_urls[k]
          /\ Under(rows[first + k - 1], "Image Position") = ToString(k)
          /\ Under(rows[first + k - 1], "Image Alt Text") # ""
          /\ \A j \in 1..Len(ShopifyHeaders) :
                ShopifyHeaders[j] \notin {"Handle", "Image Alt Text", "Image Position",
                                          "Image Src"}
                    => rows[first + k - 1][j] = ""

\* the file is its header row followed by the block of each fetched listing
ImageBlocks(rows, fetched) ==
    /\ rows[1] = ShopifyHeaders
    /\ Len(rows) = RowsBefore(Len(fetched)) + BlockLen(fetched[Len(fetched)])
    /\ \A i \in 1..Len(fetched) : ImageBlock(rows, fetched[i], RowsBefore(i) + 1)

\* C21: a listing with n images produces one primary row followed immediately by
\* min(n, 10) - 1 continuation rows (none when n <= 1); the continuation row of
\* the k-th image carries the primary row's Handle, the k-th image URL, Image
\* Position k and an alt text, and the empty string in every other field.
ImageContinuationRows == ShopifyExported => ImageBlocks(CsvRows, Fetched)

ImageContinuationWitness ==
    /\ ShopifyExported
    /\ call.listingIds.items = {"6660a1b2c3d4e5f6a71a2b3c"}
    /\ Len(Fetched[1].image_urls) > 10
    /\ Len(CsvRows) = 11
    /\ Under(CsvRows[11], "Image Position") = "10"
    /\ Under(CsvRows[11], "Image Alt Text") = "Pikachu VMAX - Image 10"
    /\ Under(CsvRows[11], "Title") = ""

\* the primary rows of two different fetched listings differ in their Handle
DistinctHandles(rows, fetched) ==
    \A i, j \in 1..Len(fetched) :
        i # j => Under(rows[RowsBefore(i) + 1], "Handle")
                     # Under(rows[RowsBefore(j) + 1], "Handle")

\* C28: in every Shopify export, two distinct listings of the batch never get the
\* same Handle, so all rows that share a Handle belong to one listing.
HandleUnique == ShopifyExported => DistinctHandles(CsvRows, Fetched)

(***************************************************************************)
(* Properties of the two row mappers on one listing (checked under SpecRow) *)
(***************************************************************************)
ShopifyRowMapped == rout.fn = "listingToShopifyRow" /\ rout.returned.kind = "return"

\* the games the claim names: the game, the collection the Shopify row files it
\* under, and its eBay category
GameTable ==
    {<<"YUGIOH", "Yu-Gi-Oh!", "183444">>, <<"MAGIC", "Magic: The Gathering", "38292">>,
     <<"POKEMON", "Pokemon Card Game", "183454">>,
     <<"ONE_PIECE", "One Piece Card Game", "183454">>}

\* the collection the Shopify export files the listing under
ShopifyCollectionOf(listing) == listingToShopifyRow(listing, UndefinedNumber).value["Collection"]

\* C29: a TCG listing that the Shopify export recognises as game G (YUGIOH, MAGIC,
\* POKEMON, ONE_PIECE) is given G's eBay category by the eBay export (YUGIOH ->
\* 183444, MAGIC -> 38292, POKEMON and ONE_PIECE -> 183454): both exports resolve
\* the game from the same attribute.
GameResolutionConsistent ==
    (RowMapped /\ lin.niche_type = "TCG") =>
        \A g \in GameTable :
            ShopifyCollectionOf(lin) = Str(g[2]) => RowCell("*Category") = Str(g[3])

ShippingTreatmentWitness ==
    /\ ShopifyRowMapped
    /\ lin.niche_type = "COLLECTION_FIGURES"
    /\ lin.price_jpy = 10000
    /\ RowCell("Variant Price") = Str("86.56")

\* the colour keywords in their declared order, each with its value
DeclaredColors == <<
    <<"navy", "Blue">>, <<"beige", "Beige">>, <<"tan", "Beige">>, <<"burgundy", "Red">>,
    <<"rose", "Pink">>, <<"blush", "Pink">>, <<"cognac", "Brown">>, <<"camel", "Brown">>,
    <<"khaki", "Beige">>, <<"cream", "White">>, <<"ivory", "White">>,
    <<"silver", "Silver">>, <<"gold", "Gold">>, <<"metallic", "Silver">>,
    <<"black", "Black">>, <<"white", "White">>, <<"brown", "Brown">>, <<"red", "Red">>,
    <<"blue", "Blue">>, <<"green", "Green">>, <<"pink", "Pink">>, <<"purple", "Purple">>,
    <<"yellow", "Yellow">>, <<"orange", "Orange">>, <<"gray", "Gray">>, <<"grey", "Gray">>
>>

\* the keyword occurs in the lower-cased title of the listing
Occurs(keyword) == includes(toLowerCase(lin.title), keyword)

\* the colour the mapped row shows: C:Exterior Color of a bag, C:Dial Color of a watch
RowColor == IF lin.niche_type = "WATCH" THEN RowCell("C:Dial Color")
            ELSE RowCell("C:Exterior Color")

\* the listing is a watch or a bag, the rows that show determineColor(brand, title)
ShowsColor ==
    /\ RowMapped
    /\ lin.niche_type = "WATCH"
          \/ (lin.niche_type = "LUXURY_ITEM" /\ lin.attributes.subcategory = Str("BAG"))

BrandDefault ==
    IF lin.attributes.brand[1] = "string"
          /\ includes(toLowerCase(lin.attributes.brand[2]), "chanel")
    THEN "Black" ELSE "Brown"

\* C23: determineColor returns the value of the first keyword, in the declared
\* order, that occurs in the lower-cased title; only when no keyword occurs does it
\* use the brand default (Louis Vuitton, Gucci, Hermes -> Brown; Chanel -> Black),
\* and 'Brown' with no brand match.
ColorPrecedence ==
    ShowsColor =>
        /\ \A i \in 1..Len(DeclaredColors) :
              (Occurs(DeclaredColors[i][1])
                  /\ \A j \in 1..(i - 1) : ~Occurs(DeclaredColors[j][1]))
                  => RowColor = Str(DeclaredColors[i][2])
        /\ (\A i \in 1..Len(DeclaredColors) : ~Occurs(DeclaredColors[i][1]))
              => RowColor = Str(BrandDefault)

\* a Chanel bag whose title names black and navy is Blue: navy is declared first
\* and the title overrides the brand's Black
ColorPrecedenceWitness ==
    /\ ShowsColor
    /\ lin.title = "Black Navy Tote"
    /\ lin.attributes.brand = Str("Chanel")
    /\ RowColor = Str("Blue")

ColorBrandDefaultWitness ==
    /\ ShowsColor
    /\ lin.title = "Plain Tote"
    /\ lin.attributes.brand = Str("CHANEL")
    /\ RowColor = Str("Black")

\* the brand of the listing contains b and its model number contains m, whatever
\* the case of the letters
Console(b, m) ==
    /\ RowMapped
    /\ lin.niche_type = "VIDEOGAME"
    /\ includes(LowerOf(lin.attributes.brand), b)
    /\ includes(LowerOf(lin.attributes.model_number), m)

\* C24: a VIDEOGAME listing whose brand contains 'sony' and whose model number
\* contains 'PSP' gets C:Platform 'Sony PSP'; Nintendo with 'switch' gets 'Nintendo
\* Switch', with 'game boy' 'Nintendo Game Boy', with '3ds' 'Nintendo 3DS'; Sony with
\* 'playstation' gets 'Sony PlayStation'; Microsoft gets 'Microsoft Xbox'.
PlatformDetection ==
    /\ Console("sony", "psp") => RowCell("C:Platform") = Str("Sony PSP")
    /\ Console("nintendo", "switch") => RowCell("C:Platform") = Str("Nintendo Switch")
    /\ Console("nintendo", "game boy") => RowCell("C:Platform") = Str("Nintendo Game Boy")
    /\ Console("nintendo", "3ds") => RowCell("C:Platform") = Str("Nintendo 3DS")
    /\ Console("sony", "playstation") => RowCell("C:Platform") = Str("Sony PlayStation")
    /\ Console("microsoft", "") => RowCell("C:Platform") = Str("Microsoft Xbox")

\* the fields every row has, and the item specifics of each niche's group
UniversalFields ==
    {"*Category", "*StartPrice", "*Title", "C:Brand", "C:Type", "ConditionID", "PicURL",
     "ShippingService-1:Cost"}

ItemSpecifics ==
    [CAMERA_GEAR |-> {"C:Megapixels", "C:Optical Zoom", "C:Series"},
     COLLECTION_FIGURES |-> {"C:Character", "C:Character Family", "C:Material", "C:Scale"},
     LUXURY_ITEM |-> {"C:Department", "C:Exterior Color", "C:Exterior Material",
                      "C:Style", "Color"},
     STATIONARY |-> {"C:Features", "C:Ink Color", "C:Point Size"},
     TCG |-> {"C:Card Name", "C:Card Number", "C:Language", "C:Rarity", "C:Set"},
     VIDEOGAME |-> {"C:Platform"},
     WATCH |-> {"C:Band Material", "C:Case Material", "C:Dial Color", "C:Movement"}]

\* the item specifics of the listing's own niche: none for a niche with no group
OwnFields ==
    IF lin.niche_type \in DOMAIN ItemSpecifics THEN ItemSpecifics[lin.niche_type] ELSE {}

\* C25: for a listing of niche X, listingToEBayRow returns without an error a row
\* that holds only universal fields and item specifics of X's group, whatever
\* attributes the listing carries; every item specific of another niche's group is
\* unset and serializes as the empty string.
NicheIsolation ==
    rout.fn = "listingToEBayRow" =>
        /\ rout.returned.kind = "return"
        /\ DOMAIN rout.returned.value \subseteq UniversalFields \cup OwnFields
        /\ \A i \in 1..Len(EBayHeaders) :
              EBayHeaders[i] \notin UniversalFields \cup OwnFields
                  => objectToCSVLine(rout.returned.value, <<EBayHeaders[i]>>) = ""

\* a watch that carries card, camera and figure attributes
NicheIsolationWitness ==
    /\ RowMapped
    /\ lin.niche_type = "WATCH"
    /\ lin.attributes.card_number = Str("025/100")
    /\ lin.attributes.character_name = Str("Miku")
    /\ lin.attributes.subcategory = Str("FOUNTAIN_PEN")
    /\ RowCell("C:Dial Color") = Str("Blue")
    /\ RowCell("C:Card Number") = Absent
    /\ RowCell("C:Character") = Absent
    /\ RowCell("C:Ink Color") = Absent

\* the ranks from best to worst, and the number each condition code stands for
RankOrder == <<"N", "S", "A", "B", "C", "D", "JUNK">>

CodeNumber ==
    ("1000" :> 1000) @@ ("1500" :> 1500) @@ ("1750" :> 1750) @@ ("3000" :> 3000)
        @@ ("4000" :> 4000) @@ ("5000" :> 5000) @@ ("6000" :> 6000) @@ ("7000" :> 7000)

RankIndex(r) == CHOOSE i \in 1..Len(RankOrder) : RankOrder[i] = r

\* C30: under each strategy, for every two ranks r1, r2 with r1 at least as good
\* as r2 in the order N > S > A > B > C > D > JUNK, the numeric ConditionID of r1
\* is less than or equal to that of r2.
ConditionOrderPreserved ==
    (rout.fn = "mapToEBayCondition" /\ ~UnknownRank) =>
        \A j \in RankIndex(lin.attributes.condition_rank[2])..Len(RankOrder) :
            CodeNumber[rout.returned[2]]
                <= CodeNumber[mapToEBayCondition(Str(RankOrder[j]), lin.niche_type)[2]]

\* a console of rank D maps to 3000, below the 7000 of JUNK and equal to the 3000
\* of A
ConditionOrderWitness ==
    /\ rout.fn = "mapToEBayCondition"
    /\ lin.niche_type = "VIDEOGAME"
    /\ lin.attributes.condition_rank = Str("D")
    /\ rout.returned = Str("3000")
    /\ mapToEBayCondition(Str("JUNK"), lin.niche_type) = Str("7000")

ConditionOrderLuxuryWitness ==
    /\ rout.fn = "mapToEBayCondition"
    /\ lin.niche_type = "LUXURY_ITEM"
    /\ lin.attributes.condition_rank = Str("A")
    /\ rout.returned = Str("1750")

(***************************************************************************)
(* Properties of the export dialogs (checked under SpecModal)              *)
(***************************************************************************)
\* the last handler called onConfirm
Confirmed == event.onConfirm # <<>>

\* the margin it passed: the last argument
ConfirmedMargin == event.onConfirm[Len(event.onConfirm)]

\* s is a decimal numeral from its first character to its last: an optional sign,
\* digits, and optionally a point and digits
IsNumeral(s) ==
    LET from == IF s # "" /\ CharAt(s, 1) \in {"+", "-"} THEN 2 ELSE 1
        int == DigitRun(s, from)
    IN /\ int > 0
       /\ \/ from + int = Len(s) + 1
          \/ /\ CharAt(s, from + int) = "."
             /\ DigitRun(s, from + int + 1) > 0
             /\ from + int + DigitRun(s, from + int + 1) = Len(s)

ConfirmGuardState ==
    modal.component = "ExportModal" =>
        /\ Confirmed =>
              /\ modal.isOpen /\ modal.step = 2
              /\ modal.selectedPlatform \in {Str("ebay"), Str("shopify")}
              /\ event.onConfirm[1] = modal.selectedPlatform
              /\ JLeq(Num(0), ConfirmedMargin) /\ JLeq(ConfirmedMargin, Num(500))
        /\ (event.event \in {"click Export", "keydown Enter"} /\ modal.step = 2
                /\ IsNumeral(modal.desiredMargin)
                /\ ~(JLeq(Num(0), parseFloat(modal.desiredMargin))
                       /\ JLeq(parseFloat(modal.desiredMargin), Num(500))))
              => event.alert # "" /\ ~Confirmed
        /\ event.alert # "" => ~Confirmed /\ modal.isOpen /\ modal.step = 2

\* C26: over every sequence of events of ExportModal (open, select platform, back
\* to step 1, edit margin, Enter, Escape, click Export, cancel), onConfirm is
\* called only while the modal is open at step 2, with the currently selected
\* non-null platform and a margin in [0, 500]; an out-of-range margin produces an
\* alert and no onConfirm call, and the step that alerts leaves the modal as it
\* was, at step 2.
ConfirmGuard ==
    /\ []ConfirmGuardState
    /\ [][(modal.component = "ExportModal" /\ event'.alert # "") => modal' = modal]_vars

ConfirmGuardWitness ==
    /\ modal.component = "ExportModal"
    /\ Confirmed
    /\ event.onConfirm = <<Str("shopify"), Rat(25, 2)>>
    /\ modal.desiredMargin = "12.5"

ConfirmGuardAlertWitness ==
    /\ modal.component = "ExportModal"
    /\ event.alert = "Please enter a margin between 0% and 500%"
    /\ modal.desiredMargin = "500.5"
    /\ modal.step = 2

\* C27: the margin that ExportModal and MarkupDialog pass to onConfirm is the
\* number the user entered: whenever onConfirm is called, the margin input holds
\* a numeral and the margin passed is its value; an empty or non-numeric entry
\* never reaches onConfirm.
MarginNeverSubstituted ==
    Confirmed =>
        /\ IsNumeral(modal.desiredMargin)
        /\ ConfirmedMargin = parseFloat(modal.desiredMargin)

=============================================================================
